---- MODULE Spec2Model ----
(***************************************************************************)
(* Career-guidance chat assistant: the dialogue controller of src/App.tsx  *)
(* with the backend services of src/services/geminiService.ts and the     *)
(* input components (ChatInput, QuizOptions).                              *)
(*                                                                         *)
(* Text is a sequence of one-character strings, so that trimming,          *)
(* splitting on whitespace, lower-casing and substring search are          *)
(* computed the way the code computes them.                                *)
(***************************************************************************)
EXTENDS Integers, Sequences, FiniteSets, TLC

VARIABLES
    messages,     \* App.tsx:12  transcript
    chatState,    \* App.tsx:13  dialogue state
    isLoading,    \* App.tsx:14  busy flag
    studentName,  \* App.tsx:18
    classLevel,   \* App.tsx:19
    stream,       \* App.tsx:20
    quizSession,  \* App.tsx:22
    geminiChat,   \* App.tsx:23  follow-up chat handle
    inflight,     \* suspended async handlers (one frame per pending await)
    ev,           \* the event delivered by the last step (input or backend reply)
    used,         \* what the environment has spent of the model's bounds
    probe         \* argument/result pair of the pure-function specifications

vars == <<messages, chatState, isLoading, studentName, classLevel, stream,
          quizSession, geminiChat, inflight, ev, used, probe>>

session == <<chatState, studentName, classLevel, stream, quizSession, geminiChat>>

(***************************************************************************)
(* Bounds of the model.                                                    *)
(***************************************************************************)
\* accepted text turns per session
MaxTextTurns == 6
\* backend replies per session other than the nominal one (failures, malformed
\* or rejecting bodies)
MaxDetours == 1
\* quiz answers per session that pick the last option instead of the first
MaxOtherClicks == 1
\* length of the raw texts of the normalisation specification
MaxRawLen == 5

(***************************************************************************)
(* Characters and strings.                                                 *)
(***************************************************************************)
\* String.prototype.toLowerCase on one character (letters of the model's alphabet)
LowerChar(c) ==
    CASE c = "A" -> "a"
      [] c = "B" -> "b"
      [] c = "L" -> "l"
      [] c = "N" -> "n"
      [] c = "O" -> "o"
      [] c = "S" -> "s"
      [] c = "T" -> "t"
      [] OTHER -> c

\* String.prototype.toLowerCase
toLowerCase(s) == [i \in 1..Len(s) |-> LowerChar(s[i])]

\* \s of the regular expression, and what trim() removes
IsSpace(c) == c \in {" ", "\t"}

RECURSIVE TrimLeft(_)
TrimLeft(s) ==
    IF s # <<>> /\ IsSpace(Head(s)) THEN TrimLeft(Tail(s)) ELSE s

RECURSIVE TrimRight(_)
TrimRight(s) ==
    IF s # <<>> /\ IsSpace(s[Len(s)]) THEN TrimRight(SubSeq(s, 1, Len(s) - 1)) ELSE s

\* String.prototype.trim
trim(s) == TrimRight(TrimLeft(s))

\* String.prototype.split(/\s+/): the pieces between maximal runs of whitespace;
\* cur is the piece being read, acc the pieces already closed
RECURSIVE SplitWs(_, _, _)
SplitWs(s, cur, acc) ==
    IF s = <<>> THEN Append(acc, cur)
    ELSE IF IsSpace(Head(s))
         THEN SplitWs(TrimLeft(s), <<>>, Append(acc, cur))
         ELSE SplitWs(Tail(s), Append(cur, Head(s)), acc)

splitWhitespace(s) == SplitWs(s, <<>>, <<>>)

\* String.prototype.split(' '): the pieces between single blanks
RECURSIVE SplitBlank(_, _, _)
SplitBlank(s, cur, acc) ==
    IF s = <<>> THEN Append(acc, cur)
    ELSE IF Head(s) = " "
         THEN SplitBlank(Tail(s), <<>>, Append(acc, cur))
         ELSE SplitBlank(Tail(s), Append(cur, Head(s)), acc)

splitBlank(s) == SplitBlank(s, <<>>, <<>>)

\* Array.prototype.join(' ')
RECURSIVE join(_)
join(words) ==
    IF words = <<>> THEN <<>>
    ELSE IF Len(words) = 1 THEN words[1]
    ELSE words[1] \o <<" ">> \o join(Tail(words))

\* String.prototype.includes
includes(s, sub) ==
    \E i \in 0..(Len(s) - Len(sub)) : SubSeq(s, i + 1, i + Len(sub)) = sub

(***************************************************************************)
(* sanitizeInput, App.tsx:78-85                                            *)
(***************************************************************************)
\* KeepWord comparing the words as they are
KeepWordCaseSensitive(words, i) ==
    i = 1 \/ words[i] # words[i - 1]

\* the filter predicate of line 82 (index i is 1-based here)
KeepWord(words, i) ==
    i = 1 \/ toLowerCase(words[i]) # toLowerCase(words[i - 1])

\* words.filter((word, index) => ...) of lines 80-83, from index i on
RECURSIVE uniqueWords(_, _)
uniqueWords(words, i) ==
    IF i > Len(words) THEN <<>>
    ELSE (IF KeepWord(words, i) THEN <<words[i]>> ELSE <<>>) \o uniqueWords(words, i + 1)

sanitizeInput(text) ==
    join(uniqueWords(splitWhitespace(trim(text)), 1))

(***************************************************************************)
(* Types of src/unnamed/part_001 (types.ts).                               *)
(***************************************************************************)
\* enum ChatSender
USER == "user"
BOT == "bot"

\* enum ChatState, with the member App.tsx uses for the final-feedback prompt
ChatStates ==
    {"INITIAL", "AWAITING_NAME", "AWAITING_CLASS_LEVEL", "AWAITING_STREAM",
     "AWAITING_PREDICTED_DOMAIN", "AWAITING_SATISFACTION",
     "AWAITING_INTERESTED_DOMAIN", "GENERATING_QUIZ", "IN_QUIZ", "ANALYZING_QUIZ",
     "AWAITING_ADJACENT_CHOICE", "AWAITING_FINAL_FEEDBACK", "POST_GUIDANCE_CHAT"}

\* ChatMessageData; an absent options, analysis or roadmap is the empty sequence,
\* an absent selectedOption is -1, an absent quizAnswered is FALSE
Message(sender, text, options, analysis, roadmap) ==
    [sender |-> sender, text |-> text, options |-> options,
     quizAnswered |-> FALSE, selectedOption |-> -1,
     analysis |-> analysis, roadmap |-> roadmap]

\* QuizSession | null; an absent field is the empty string or sequence
NoQuizSession ==
    [present |-> FALSE, predictedDomain |-> "", interestedDomain |-> "",
     questions |-> <<>>, userAnswers |-> <<>>]

(***************************************************************************)
(* What the user may type or say, and what the backend may answer.         *)
(***************************************************************************)
W12 == <<"1", "2">>
W10 == <<"1", "0">>
Wnot == <<"n", "o", "t">>
Wsatisfied == <<"s", "a", "t", "i", "s", "f", "i", "e", "d">>
WSatisfied == <<"S", "a", "t", "i", "s", "f", "i", "e", "d">>
Wal == <<"a", "l">>
SP == <<" ">>

\* what the user types: "12 12 satisfied", "12 Satisfied", "10 12 not satisfied", "al"
UserTexts ==
    { W12 \o SP \o W12 \o SP \o Wsatisfied,
      W12 \o SP \o WSatisfied,
      W10 \o SP \o W12 \o SP \o Wnot \o SP \o Wsatisfied,
      Wal }

\* what the user says into the microphone: " al ", "12 Satisfied"
SpokenTexts ==
    { SP \o Wal \o SP,
      W12 \o SP \o WSatisfied }

\* the options the user clicks: the first or the last of a question
ClickChoices(options) == {0, Len(options) - 1}

\* a reply of ai.models.generateContent / chat.sendMessage carrying plain text;
\* ok = FALSE is a rejected promise
TextReply(ok, text, detour) == [ok |-> ok, text |-> text, detour |-> detour]

\* a reply whose text is the JSON of { isValid, streamName | domainName }
ValidationReply(ok, parses, hasFlag, isValid, name, detour) ==
    [ok |-> ok, parses |-> parses, hasFlag |-> hasFlag, isValid |-> isValid,
     name |-> name, detour |-> detour]

ValidationReplies(label) ==
    { ValidationReply(TRUE, TRUE, TRUE, TRUE, label, FALSE),
      ValidationReply(TRUE, TRUE, TRUE, TRUE, "", TRUE),
      ValidationReply(TRUE, TRUE, TRUE, FALSE, "", TRUE),
      ValidationReply(TRUE, TRUE, FALSE, FALSE, "", TRUE),
      ValidationReply(TRUE, FALSE, FALSE, FALSE, "", TRUE),
      ValidationReply(FALSE, FALSE, FALSE, FALSE, "", TRUE) }

NameReplies ==
    { TextReply(TRUE, <<" ">> \o Wal, FALSE), TextReply(FALSE, <<>>, TRUE) }

\* option j (0-based) of question k
OptionText(k, j) ==
    <<"q">> \o <<(<<"1", "2", "3", "4", "5">>)[k]>> \o <<(<<"a", "b", "c", "d", "e">>)[j + 1]>>

Question(k, nOptions, correct) ==
    [question |-> k, options |-> [j \in 1..nOptions |-> OptionText(k, j - 1)],
     correctAnswerIndex |-> correct]

\* a reply whose text is the JSON of a QuizQuestion[]
QuizReply(ok, parses, items, detour) ==
    [ok |-> ok, parses |-> parses, items |-> items, detour |-> detour]

CorrectIndexes == <<3, 3, 0, 0, 0>>

QuizReplies ==
    { QuizReply(TRUE, TRUE, [k \in 1..5 |-> Question(k, 4, CorrectIndexes[k])], FALSE),
      QuizReply(TRUE, TRUE, [k \in 1..4 |-> Question(k, 4, CorrectIndexes[k])], TRUE),
      QuizReply(TRUE, TRUE,
                [k \in 1..5 |-> Question(k, IF k = 2 THEN 3 ELSE 4, CorrectIndexes[k])], TRUE),
      QuizReply(TRUE, TRUE,
                [k \in 1..5 |-> Question(k, IF k = 2 THEN 5 ELSE 4, CorrectIndexes[k])], TRUE),
      QuizReply(TRUE, TRUE,
                [k \in 1..5 |-> Question(k, 4, IF k = 1 THEN 4 ELSE CorrectIndexes[k])], TRUE),
      QuizReply(TRUE, FALSE, <<>>, TRUE),
      QuizReply(FALSE, FALSE, <<>>, TRUE) }

\* a reply whose text is the JSON of a QuizAnalysisData
AnalysisReply(ok, parses, headline, breakdown, detour) ==
    [ok |-> ok, parses |-> parses, headline |-> headline, questionBreakdown |-> breakdown,
     detour |-> detour]

\* the performance label the system instruction asks for (geminiService.ts:214-217)
PerformanceLabel(score) ==
    IF score <= 2 THEN "Poor Performance"
    ELSE IF score = 3 THEN "Medium Performance"
    ELSE "Good Performance"

NoHeadline == [score |-> 0, label |-> ""]

\* the headline a backend that reads the prompt faithfully returns
FaithfulHeadline(prompt) ==
    LET score == Cardinality({i \in 1..Len(prompt) :
                                 prompt[i].studentAnswer = prompt[i].correctAnswer})
    IN [score |-> score, label |-> PerformanceLabel(score)]

\* the breakdown a backend that reads the prompt faithfully returns
FaithfulBreakdown(prompt) ==
    [i \in 1..Len(prompt) |->
        [userAnswer |-> prompt[i].studentAnswer,
         correctAnswer |-> prompt[i].correctAnswer,
         isCorrect |-> prompt[i].studentAnswer = prompt[i].correctAnswer]]

AnalysisReplies(prompt) ==
    { AnalysisReply(TRUE, TRUE, FaithfulHeadline(prompt), FaithfulBreakdown(prompt), FALSE),
      AnalysisReply(TRUE, TRUE, FaithfulHeadline(prompt),
                    [i \in 1..Len(prompt) |-> [FaithfulBreakdown(prompt)[i] EXCEPT !.isCorrect = TRUE]],
                    TRUE),
      AnalysisReply(TRUE, TRUE, FaithfulHeadline(prompt),
                    SubSeq(FaithfulBreakdown(prompt), 1, 3), TRUE),
      AnalysisReply(TRUE, FALSE, NoHeadline, <<>>, TRUE),
      AnalysisReply(FALSE, FALSE, NoHeadline, <<>>, TRUE) }

\* a reply whose text is the JSON of a RoadmapStep[]
RoadmapReply(ok, parses, items, detour) ==
    [ok |-> ok, parses |-> parses, items |-> items, detour |-> detour]

RoadmapReplies ==
    { RoadmapReply(TRUE, TRUE, <<"stage1", "stage2", "stage3">>, FALSE),
      RoadmapReply(TRUE, TRUE, <<"stage1", "stage2">>, TRUE),
      RoadmapReply(TRUE, TRUE, <<>>, TRUE),
      RoadmapReply(TRUE, FALSE, <<>>, TRUE),
      RoadmapReply(FALSE, FALSE, <<>>, TRUE) }

DetailsReplies ==
    { TextReply(TRUE, <<"guide">>, FALSE), TextReply(FALSE, <<>>, TRUE) }

ChatReplies ==
    { TextReply(TRUE, <<"answer">>, FALSE), TextReply(FALSE, <<>>, TRUE) }

WPOSITIVE == <<"P", "O", "S", "I", "T", "I", "V", "E">>
Wpositive == <<"p", "o", "s", "i", "t", "i", "v", "e">>
WNEGATIVE == <<"N", "E", "G", "A", "T", "I", "V", "E">>

SentimentReplies ==
    { TextReply(TRUE, WPOSITIVE, FALSE),
      TextReply(TRUE, <<" ">> \o Wpositive \o <<" ">>, FALSE),
      TextReply(TRUE, WNEGATIVE, FALSE),
      TextReply(TRUE, WPOSITIVE \o <<"!">>, TRUE),
      TextReply(TRUE, <<>>, TRUE),
      TextReply(FALSE, <<>>, TRUE) }

(***************************************************************************)
(* src/services/geminiService.ts: each service as a function of the reply  *)
(* its backend call receives.  threw = TRUE is a rejected promise.         *)
(***************************************************************************)
\* String.prototype.toUpperCase on one character
UpperChar(c) ==
    CASE c = "p" -> "P"
      [] c = "o" -> "O"
      [] c = "s" -> "S"
      [] c = "i" -> "I"
      [] c = "t" -> "T"
      [] c = "v" -> "V"
      [] c = "e" -> "E"
      [] c = "n" -> "N"
      [] c = "g" -> "G"
      [] c = "a" -> "A"
      [] OTHER -> c

toUpperCase(s) == [i \in 1..Len(s) |-> UpperChar(s[i])]

\* array[index] with a 0-based index; out of range reads undefined
Undefined == <<"undefined">>
At(array, index) ==
    IF index + 1 \in 1..Len(array) THEN array[index + 1] ELSE Undefined

\* IsShortName accepting a single word only
IsSingleWordName(text) == Len(splitBlank(trim(text))) <= 1

\* extractNameFromText, line 25: the short input that skips the backend
NameThreshold == 2
IsShortName(text) == Len(splitBlank(trim(text))) <= NameThreshold

\* extractNameFromText, lines 29-39
extractNameFromText(reply) ==
    [threw |-> ~reply.ok, value |-> IF reply.ok THEN trim(reply.text) ELSE <<>>]

\* validateStream, lines 65-92
validateStream(reply) ==
    IF ~reply.ok THEN [threw |-> TRUE, isValid |-> FALSE, streamName |-> ""]
    ELSE IF reply.parses /\ reply.hasFlag
         THEN [threw |-> FALSE, isValid |-> reply.isValid,
               streamName |-> IF reply.isValid /\ reply.name # "" THEN reply.name ELSE ""]
         ELSE [threw |-> FALSE, isValid |-> FALSE, streamName |-> ""]

\* validateDomain raising a malformed reply to its caller
validateDomainThrowing(reply) ==
    IF ~reply.ok THEN [threw |-> TRUE, isValid |-> FALSE, domainName |-> ""]
    ELSE IF reply.parses /\ reply.hasFlag
         THEN [threw |-> FALSE, isValid |-> reply.isValid,
               domainName |-> IF reply.isValid /\ reply.name # "" THEN reply.name ELSE ""]
         ELSE [threw |-> TRUE, isValid |-> FALSE, domainName |-> ""]

\* validateDomain, lines 116-143
validateDomain(reply) ==
    IF ~reply.ok THEN [threw |-> TRUE, isValid |-> FALSE, domainName |-> ""]
    ELSE IF reply.parses /\ reply.hasFlag
         THEN [threw |-> FALSE, isValid |-> reply.isValid,
               domainName |-> IF reply.isValid /\ reply.name # "" THEN reply.name ELSE ""]
         ELSE [threw |-> FALSE, isValid |-> FALSE, domainName |-> ""]

\* getQuizQuestions, lines 184-207
QuizLength == 5
OptionsPerQuestion == 4

\* getQuizQuestions returning whatever array the reply parses to
getQuizQuestionsAnyShape(reply) ==
    IF reply.ok /\ reply.parses
    THEN [threw |-> FALSE, value |-> reply.items]
    ELSE [threw |-> TRUE, value |-> <<>>]

getQuizQuestions(reply) ==
    IF /\ reply.ok
       /\ reply.parses
       /\ Len(reply.items) = QuizLength
       /\ \A k \in 1..Len(reply.items) : Len(reply.items[k].options) = OptionsPerQuestion
    THEN [threw |-> FALSE, value |-> reply.items]
    ELSE [threw |-> TRUE, value |-> <<>>]

\* getQuizAnalysis, lines 266-271: quizDataForPrompt
quizDataForPrompt(qs) ==
    [i \in 1..Len(qs.questions) |->
        [question |-> qs.questions[i].question,
         options |-> qs.questions[i].options,
         correctAnswer |-> At(qs.questions[i].options, qs.questions[i].correctAnswerIndex),
         studentAnswer |-> IF i \in 1..Len(qs.userAnswers)
                           THEN At(qs.questions[i].options, qs.userAnswers[i])
                           ELSE Undefined]]

\* getQuizAnalysis, lines 285-296
GoodFitScore == 4

\* getQuizAnalysis taking the verdict from the headline's label
getQuizAnalysisByHeadline(reply) ==
    IF reply.ok /\ reply.parses
    THEN [threw |-> FALSE,
          data |-> [headline |-> reply.headline,
                    questionBreakdown |-> reply.questionBreakdown],
          isGoodFit |-> reply.headline.label = "Good Performance"]
    ELSE [threw |-> TRUE, data |-> [headline |-> NoHeadline, questionBreakdown |-> <<>>],
          isGoodFit |-> FALSE]

getQuizAnalysis(reply) ==
    IF reply.ok /\ reply.parses
    THEN LET score == Cardinality({i \in 1..Len(reply.questionBreakdown) :
                                      reply.questionBreakdown[i].isCorrect})
         IN [threw |-> FALSE,
             data |-> [headline |-> reply.headline,
                       questionBreakdown |-> reply.questionBreakdown],
             isGoodFit |-> score >= GoodFitScore]
    ELSE [threw |-> TRUE, data |-> [headline |-> NoHeadline, questionBreakdown |-> <<>>],
          isGoodFit |-> FALSE]

\* getDomainDetails, lines 342-351
getDomainDetails(reply) ==
    [threw |-> ~reply.ok, value |-> reply.text]

\* getDomainRoadmap, lines 389-411
getDomainRoadmap(reply) ==
    IF reply.ok /\ reply.parses /\ Len(reply.items) > 0
    THEN [threw |-> FALSE, value |-> reply.items]
    ELSE [threw |-> TRUE, value |-> <<>>]

\* isPositiveFeedback comparing the reply as it is
isPositiveFeedbackVerbatim(reply) ==
    [threw |-> ~reply.ok,
     value |-> reply.ok /\ reply.text = WPOSITIVE]

\* isPositiveFeedback, lines 428-443
isPositiveFeedback(reply) ==
    [threw |-> ~reply.ok,
     value |-> reply.ok /\ toUpperCase(trim(reply.text)) = WPOSITIVE]

(***************************************************************************)
(* src/App.tsx: the dialogue controller.                                   *)
(***************************************************************************)
\* the state the handlers write (everything but the environment's bookkeeping)
prog == <<messages, chatState, isLoading, studentName, classLevel, stream,
          quizSession, geminiChat, inflight>>

context == <<studentName, classLevel, stream, quizSession, geminiChat>>

\* a suspended handler: fn is the handler, pc the call it awaits, domain and qs
\* the locals it still reads after the await (interestedDomain / domain,
\* newQuizSession), prompt the quizDataForPrompt sent with the analysis request
Frame(fn, pc, domain, qs, prompt) ==
    [fn |-> fn, pc |-> pc, domain |-> domain, qs |-> qs, prompt |-> prompt]

Without(frames, i) == SubSeq(frames, 1, i - 1) \o SubSeq(frames, i + 1, Len(frames))

\* bot message without attachments
BotText(text) == Message(BOT, text, <<>>, <<>>, <<>>)

\* addMessage, lines 50-62 (the transcript part)
addMessage(msgs, m) == Append(msgs, m)

\* the bot's fixed texts, named by what they say
Greeting == <<"Hi there! ... could you please tell me your name?">>
Apology == <<"Sorry, something went wrong. Please try again later.">>
ClassReprompt == <<"Please tell me if you're in 'Class 10' or 'Class 12'.">>
StreamReprompt == <<"That doesn't seem like a valid academic stream. ...">>
PredictedReprompt == <<"That doesn't seem to be a valid career domain. Please tell me the domain that was predicted ...">>
InterestedReprompt == <<"That doesn't seem to be a valid career domain. Please name 1-2 domains ...">>
AdjacentReprompt == <<"Please choose one of the suggested domains, or name another one you're interested in.">>
AskInterested == <<"No problem! Which domains interest you most? ...">>
AskOtherDomains == <<"No problem at all! Exploring is what this is all about. Which other domains interest you most? ...">>
NoChat == <<"Sorry, I can't continue the conversation right now. Please refresh the page to start over.">>
GuideError == <<"Sorry, I had trouble generating the guide for that domain. Please try another one.">>
AnalysisError == <<"I had some trouble analyzing your results. Let's try exploring a domain directly. Which one interests you?">>
Thanks == <<"Thanks! Let me analyze your results...">>
FeedbackPrompt == <<"So, what do you think? Does this sound like a good path for you, ...">>
GladToHelp == <<"I'm glad this was helpful! Feel free to ask me any more questions you have.">>

\* startConversation, lines 64-70, run by the effect of lines 72-76
startConversation ==
    /\ chatState = "INITIAL"
    /\ messages' = addMessage(messages, BotText(Greeting))
    /\ chatState' = "AWAITING_NAME"
    /\ isLoading' = FALSE
    /\ UNCHANGED <<context, inflight>>

\* IsDuplicate comparing the texts as they are
IsDuplicateCaseSensitive(text) ==
    LET users == {i \in 1..Len(messages) : messages[i].sender = USER}
    IN /\ users # {}
       /\ LET last == CHOOSE i \in users : \A j \in users : j <= i
          IN trim(messages[last].text) = trim(text)

\* lines 114-115: the text equals, case-insensitively, the last user message
IsDuplicate(text) ==
    LET users == {i \in 1..Len(messages) : messages[i].sender = USER}
    IN /\ users # {}
       /\ LET last == CHOOSE i \in users : \A j \in users : j <= i
          IN toLowerCase(trim(messages[last].text)) = toLowerCase(trim(text))

\* CatchAndFinally falling back to the domain question, as the other handlers do
CatchAndFallBack(msgs, i) ==
    /\ messages' = addMessage(msgs, BotText(Apology))
    /\ chatState' = "AWAITING_INTERESTED_DOMAIN"
    /\ isLoading' = FALSE
    /\ inflight' = Without(inflight, i)
    /\ UNCHANGED context

\* lines 245-250: the catch and finally of handleUserMessage, ending frame i
\* (i = 0: the handler had not suspended)
CatchAndFinally(msgs, i) ==
    /\ messages' = addMessage(msgs, BotText(Apology))
    /\ isLoading' = FALSE
    /\ inflight' = Without(inflight, i)
    /\ UNCHANGED <<chatState, context>>

\* generateAndDisplayDomainGuide, lines 87-92: up to the first await
StartGuide(msgs, fn, domain, frames) ==
    /\ messages' = addMessage(msgs, BotText(<<"Awesome! I'm putting together a detailed guide ... for", domain>>))
    /\ isLoading' = TRUE
    /\ inflight' = Append(frames, Frame(fn, "getDomainDetails", domain, NoQuizSession, <<>>))

\* presentQuestion showing the question at the index of the answer just given
presentQuestionAgain(msgs, questions, index) ==
    IF questions = <<>> \/ index >= Len(questions) THEN msgs
    ELSE addMessage(msgs,
            Message(BOT, <<"Question", IF index = 0 THEN 1 ELSE index, Len(questions),
                           questions[IF index = 0 THEN 1 ELSE index].question>>,
                    questions[IF index = 0 THEN 1 ELSE index].options, <<>>, <<>>))

\* presentQuestion, lines 253-258
presentQuestion(msgs, questions, index) ==
    IF questions = <<>> \/ index >= Len(questions) THEN msgs
    ELSE addMessage(msgs,
            Message(BOT, <<"Question", index + 1, Len(questions), questions[index + 1].question>>,
                    questions[index + 1].options, <<>>, <<>>))

\* case AWAITING_NAME, lines 124-131
CaseAwaitingName(text, msgs) ==
    IF IsShortName(text)
    THEN /\ studentName' = trim(text)
         /\ messages' = addMessage(msgs, BotText(<<"Great to meet you", trim(text)>>))
         /\ chatState' = "AWAITING_CLASS_LEVEL"
         /\ isLoading' = FALSE
         /\ UNCHANGED <<classLevel, stream, quizSession, geminiChat, inflight>>
    ELSE /\ messages' = msgs
         /\ isLoading' = TRUE
         /\ inflight' = Append(inflight, Frame("handleUserMessage", "extractNameFromText", "", NoQuizSession, <<>>))
         /\ UNCHANGED <<chatState, context>>

\* CaseAwaitingClassLevel testing for "12" before "10"
CaseAwaitingClassLevel12First(text, msgs) ==
    LET level == toLowerCase(text)
    IN /\ IF includes(level, W12)
          THEN /\ classLevel' = "Class 12"
               /\ messages' = addMessage(msgs, BotText(<<"Thanks! And which stream are you in?">>))
               /\ chatState' = "AWAITING_STREAM"
          ELSE IF includes(level, W10)
          THEN /\ classLevel' = "Class 10"
               /\ messages' = addMessage(msgs, BotText(<<"Perfect. Now, can you tell me what domain was predicted ...">>))
               /\ chatState' = "AWAITING_PREDICTED_DOMAIN"
          ELSE /\ messages' = addMessage(msgs, BotText(ClassReprompt))
               /\ UNCHANGED <<classLevel, chatState>>
       /\ isLoading' = FALSE
       /\ UNCHANGED <<studentName, stream, quizSession, geminiChat, inflight>>

\* case AWAITING_CLASS_LEVEL, lines 133-149
CaseAwaitingClassLevel(text, msgs) ==
    LET level == toLowerCase(text)
    IN /\ IF includes(level, W10)
          THEN /\ classLevel' = "Class 10"
               /\ messages' = addMessage(msgs, BotText(<<"Perfect. Now, can you tell me what domain was predicted ...">>))
               /\ chatState' = "AWAITING_PREDICTED_DOMAIN"
          ELSE IF includes(level, W12)
          THEN /\ classLevel' = "Class 12"
               /\ messages' = addMessage(msgs, BotText(<<"Thanks! And which stream are you in?">>))
               /\ chatState' = "AWAITING_STREAM"
          ELSE /\ messages' = addMessage(msgs, BotText(ClassReprompt))
               /\ UNCHANGED <<classLevel, chatState>>
       /\ isLoading' = FALSE
       /\ UNCHANGED <<studentName, stream, quizSession, geminiChat, inflight>>

\* the cases that start with a validation call (lines 152, 166, 194, 213, 224)
\* or the follow-up send (line 237): the handler suspends at pc
AwaitBackend(msgs, pc) ==
    /\ messages' = msgs
    /\ isLoading' = TRUE
    /\ inflight' = Append(inflight, Frame("handleUserMessage", pc, "", NoQuizSession, <<>>))
    /\ UNCHANGED <<chatState, context>>

\* case AWAITING_SATISFACTION without the test for 'not'
CaseAwaitingSatisfactionIgnoringNot(text, msgs) ==
    LET lowerCaseText == toLowerCase(text)
    IN IF includes(lowerCaseText, Wsatisfied)
       THEN /\ StartGuide(msgs, "handleUserMessage", quizSession.predictedDomain, inflight)
            /\ UNCHANGED <<chatState, context>>
       ELSE /\ messages' = addMessage(msgs, BotText(AskInterested))
            /\ chatState' = "AWAITING_INTERESTED_DOMAIN"
            /\ isLoading' = FALSE
            /\ UNCHANGED <<context, inflight>>

\* case AWAITING_SATISFACTION, lines 180-191
CaseAwaitingSatisfaction(text, msgs) ==
    LET lowerCaseText == toLowerCase(text)
    IN IF includes(lowerCaseText, Wsatisfied) /\ ~includes(lowerCaseText, Wnot)
       THEN /\ StartGuide(msgs, "handleUserMessage", quizSession.predictedDomain, inflight)
            /\ UNCHANGED <<chatState, context>>
       ELSE /\ messages' = addMessage(msgs, BotText(AskInterested))
            /\ chatState' = "AWAITING_INTERESTED_DOMAIN"
            /\ isLoading' = FALSE
            /\ UNCHANGED <<context, inflight>>

\* case POST_GUIDANCE_CHAT, lines 235-243
CasePostGuidanceChat(text, msgs) ==
    IF geminiChat
    THEN AwaitBackend(msgs, "sendMessage")
    ELSE /\ messages' = addMessage(msgs, BotText(NoChat))
         /\ isLoading' = FALSE
         /\ UNCHANGED <<chatState, context, inflight>>

\* the switch of lines 123-244
Dispatch(text, msgs) ==
    CASE chatState = "AWAITING_NAME" -> CaseAwaitingName(text, msgs)
      [] chatState = "AWAITING_CLASS_LEVEL" -> CaseAwaitingClassLevel(text, msgs)
      [] chatState = "AWAITING_STREAM" -> AwaitBackend(msgs, "validateStream")
      [] chatState = "AWAITING_PREDICTED_DOMAIN" -> AwaitBackend(msgs, "validatePredictedDomain")
      [] chatState = "AWAITING_SATISFACTION" -> CaseAwaitingSatisfaction(text, msgs)
      [] chatState = "AWAITING_INTERESTED_DOMAIN" -> AwaitBackend(msgs, "validateInterestedDomain")
      [] chatState = "AWAITING_ADJACENT_CHOICE" -> AwaitBackend(msgs, "validateAdjacentDomain")
      [] chatState = "AWAITING_FINAL_FEEDBACK" -> AwaitBackend(msgs, "isPositiveFeedback")
      [] chatState = "POST_GUIDANCE_CHAT" -> CasePostGuidanceChat(text, msgs)
      [] OTHER -> /\ messages' = msgs
                  /\ isLoading' = FALSE
                  /\ UNCHANGED <<chatState, context, inflight>>

\* handleUserMessage without the busy guard of line 109
handleUserMessageWhileBusy(rawText) ==
    LET text == sanitizeInput(rawText)
    IN IF IsDuplicate(text) THEN UNCHANGED prog
       ELSE Dispatch(text, addMessage(messages, Message(USER, text, <<>>, <<>>, <<>>)))

\* handleUserMessage, lines 108-121: the guards, then the switch
handleUserMessage(rawText) ==
    LET text == sanitizeInput(rawText)
    IN IF isLoading THEN UNCHANGED prog
       ELSE IF IsDuplicate(text) THEN UNCHANGED prog
       ELSE Dispatch(text, addMessage(messages, Message(USER, text, <<>>, <<>>, <<>>)))

\* line 125-129 after the await of extractNameFromText
AfterExtractName(i, reply) ==
    LET r == extractNameFromText(reply)
    IN IF r.threw THEN CatchAndFinally(messages, i)
       ELSE /\ studentName' = r.value
            /\ messages' = addMessage(messages, BotText(<<"Great to meet you", r.value>>))
            /\ chatState' = "AWAITING_CLASS_LEVEL"
            /\ isLoading' = FALSE
            /\ inflight' = Without(inflight, i)
            /\ UNCHANGED <<classLevel, stream, quizSession, geminiChat>>

\* Reprompt leaving the busy flag set
RepromptStillBusy(i, text) ==
    /\ messages' = addMessage(messages, BotText(text))
    /\ inflight' = Without(inflight, i)
    /\ UNCHANGED <<isLoading, chatState, context>>

\* Reprompt saying the re-prompt twice
RepromptTwice(i, text) ==
    /\ messages' = addMessage(addMessage(messages, BotText(text)), BotText(text))
    /\ isLoading' = FALSE
    /\ inflight' = Without(inflight, i)
    /\ UNCHANGED <<chatState, context>>

\* a validation that rejected: the re-prompt of lines 159-160, 174-175, 206-207, 217-218
Reprompt(i, text) ==
    /\ messages' = addMessage(messages, BotText(text))
    /\ isLoading' = FALSE
    /\ inflight' = Without(inflight, i)
    /\ UNCHANGED <<chatState, context>>

\* case AWAITING_STREAM, lines 152-162 after the await
AfterValidateStream(i, reply) ==
    LET validation == validateStream(reply)
    IN IF validation.threw THEN CatchAndFinally(messages, i)
       ELSE IF validation.isValid /\ validation.streamName # ""
       THEN /\ stream' = validation.streamName
            /\ messages' = addMessage(messages, BotText(<<"Got it, stream", validation.streamName>>))
            /\ chatState' = "AWAITING_PREDICTED_DOMAIN"
            /\ isLoading' = FALSE
            /\ inflight' = Without(inflight, i)
            /\ UNCHANGED <<studentName, classLevel, quizSession, geminiChat>>
       ELSE Reprompt(i, StreamReprompt)

\* case AWAITING_PREDICTED_DOMAIN, lines 166-177 after the await
AfterValidatePredictedDomain(i, reply) ==
    LET validation == validateDomain(reply)
    IN IF validation.threw THEN CatchAndFinally(messages, i)
       ELSE IF validation.isValid /\ validation.domainName # ""
       THEN /\ quizSession' = [present |-> TRUE, predictedDomain |-> validation.domainName,
                               interestedDomain |-> "", questions |-> <<>>, userAnswers |-> <<>>]
            /\ messages' = addMessage(messages, BotText(<<"So your predicted domain is", validation.domainName>>))
            /\ chatState' = "AWAITING_SATISFACTION"
            /\ isLoading' = FALSE
            /\ inflight' = Without(inflight, i)
            /\ UNCHANGED <<studentName, classLevel, stream, geminiChat>>
       ELSE Reprompt(i, PredictedReprompt)

\* setQuizSession({ interestedDomain }) without spreading the previous session
WithInterestedDomainOnly(prev, interestedDomain) ==
    [NoQuizSession EXCEPT !.present = TRUE, !.interestedDomain = interestedDomain]

\* line 197: setQuizSession(prev => ({ ...prev!, interestedDomain }))
WithInterestedDomain(prev, interestedDomain) ==
    [prev EXCEPT !.interestedDomain = interestedDomain]

\* line 202: setQuizSession(prev => ({ ...prev!, questions }))
WithQuestions(prev, questions) ==
    [prev EXCEPT !.questions = questions]

\* case AWAITING_INTERESTED_DOMAIN, lines 194-201: up to the await of getQuizQuestions
AfterValidateInterestedDomain(i, reply) ==
    LET validation == validateDomain(reply)
    IN IF validation.threw THEN CatchAndFinally(messages, i)
       ELSE IF validation.isValid /\ validation.domainName # ""
       THEN /\ quizSession' = WithInterestedDomain(quizSession, validation.domainName)
            /\ messages' = addMessage(messages, BotText(<<"Great! Let's explore", validation.domainName>>))
            /\ chatState' = "GENERATING_QUIZ"
            /\ inflight' = [inflight EXCEPT ![i] =
                               Frame("handleUserMessage", "getQuizQuestions",
                                     validation.domainName, NoQuizSession, <<>>)]
            /\ UNCHANGED <<isLoading, studentName, classLevel, stream, geminiChat>>
       ELSE Reprompt(i, InterestedReprompt)

\* case AWAITING_INTERESTED_DOMAIN, lines 201-204 after the await of getQuizQuestions
AfterGetQuizQuestions(i, reply) ==
    LET r == getQuizQuestions(reply)
    IN IF r.threw THEN CatchAndFinally(messages, i)
       ELSE /\ quizSession' = WithQuestions(quizSession, r.value)
            /\ chatState' = "IN_QUIZ"
            /\ messages' = presentQuestion(messages, r.value, 0)
            /\ isLoading' = FALSE
            /\ inflight' = Without(inflight, i)
            /\ UNCHANGED <<studentName, classLevel, stream, geminiChat>>

\* case AWAITING_ADJACENT_CHOICE treating an accepted domain as an interested domain
AfterValidateAdjacentDomainAsInterested(i, reply) == AfterValidateInterestedDomain(i, reply)

\* case AWAITING_ADJACENT_CHOICE, lines 213-220 after the await
AfterValidateAdjacentDomain(i, reply) ==
    LET validation == validateDomain(reply)
    IN IF validation.threw THEN CatchAndFinally(messages, i)
       ELSE IF validation.isValid /\ validation.domainName # ""
       THEN /\ StartGuide(messages, "handleUserMessage", validation.domainName, Without(inflight, i))
            /\ UNCHANGED <<chatState, context>>
       ELSE Reprompt(i, AdjacentReprompt)

\* startFollowUpConversation entering the follow-up state without creating the handle
startFollowUpConversationWithoutChat(i) ==
    /\ messages' = addMessage(messages, BotText(GladToHelp))
    /\ chatState' = "POST_GUIDANCE_CHAT"
    /\ isLoading' = FALSE
    /\ inflight' = Without(inflight, i)
    /\ UNCHANGED <<studentName, classLevel, stream, quizSession, geminiChat>>

\* startFollowUpConversation, lines 266-272
startFollowUpConversation(i) ==
    /\ messages' = addMessage(messages, BotText(GladToHelp))
    /\ geminiChat' = TRUE
    /\ chatState' = "POST_GUIDANCE_CHAT"
    /\ isLoading' = FALSE
    /\ inflight' = Without(inflight, i)
    /\ UNCHANGED <<studentName, classLevel, stream, quizSession>>

\* case AWAITING_FINAL_FEEDBACK sending a declined guide back to the predicted domain
AfterIsPositiveFeedbackToPredictedDomain(i, reply) ==
    LET isPositive == isPositiveFeedback(reply)
    IN IF isPositive.threw THEN CatchAndFinally(messages, i)
       ELSE IF isPositive.value THEN startFollowUpConversation(i)
       ELSE /\ messages' = addMessage(messages, BotText(AskOtherDomains))
            /\ chatState' = "AWAITING_PREDICTED_DOMAIN"
            /\ isLoading' = FALSE
            /\ inflight' = Without(inflight, i)
            /\ UNCHANGED context

\* case AWAITING_FINAL_FEEDBACK, lines 224-232 after the await
AfterIsPositiveFeedback(i, reply) ==
    LET isPositive == isPositiveFeedback(reply)
    IN IF isPositive.threw THEN CatchAndFinally(messages, i)
       ELSE IF isPositive.value THEN startFollowUpConversation(i)
       ELSE /\ messages' = addMessage(messages, BotText(AskOtherDomains))
            /\ chatState' = "AWAITING_INTERESTED_DOMAIN"
            /\ isLoading' = FALSE
            /\ inflight' = Without(inflight, i)
            /\ UNCHANGED context

\* AfterSendMessage going back to the domain question when the send fails
AfterSendMessageLeavingChat(i, reply) ==
    IF ~reply.ok
    THEN /\ messages' = addMessage(messages, BotText(Apology))
         /\ chatState' = "AWAITING_INTERESTED_DOMAIN"
         /\ isLoading' = FALSE
         /\ inflight' = Without(inflight, i)
         /\ UNCHANGED context
    ELSE /\ messages' = addMessage(messages, BotText(reply.text))
         /\ isLoading' = FALSE
         /\ inflight' = Without(inflight, i)
         /\ UNCHANGED <<chatState, context>>

\* case POST_GUIDANCE_CHAT, lines 237-238 after the await
AfterSendMessage(i, reply) ==
    IF ~reply.ok THEN CatchAndFinally(messages, i)
    ELSE /\ messages' = addMessage(messages, BotText(reply.text))
         /\ isLoading' = FALSE
         /\ inflight' = Without(inflight, i)
         /\ UNCHANGED <<chatState, context>>

\* generateAndDisplayDomainGuide without a catch of its own: the failure reaches
\* the catch of the handler that called it
GuideCatchByCaller(i) == CatchAndFinally(messages, i)

\* the catch of generateAndDisplayDomainGuide forgetting what the intake captured
GuideCatchForgettingIntake(i) ==
    /\ messages' = addMessage(messages, BotText(GuideError))
    /\ chatState' = "AWAITING_INTERESTED_DOMAIN"
    /\ isLoading' = FALSE
    /\ inflight' = Without(inflight, i)
    /\ studentName' = <<>>
    /\ classLevel' = ""
    /\ stream' = ""
    /\ UNCHANGED <<quizSession, geminiChat>>

\* generateAndDisplayDomainGuide, lines 99-105: its catch and finally (and the
\* finally of the handler that called it)
GuideCatch(i) ==
    /\ messages' = addMessage(messages, BotText(GuideError))
    /\ chatState' = "AWAITING_INTERESTED_DOMAIN"
    /\ isLoading' = FALSE
    /\ inflight' = Without(inflight, i)
    /\ UNCHANGED context

\* generateAndDisplayDomainGuide, lines 92-95 after the await of getDomainDetails
AfterGetDomainDetails(i, reply) ==
    LET details == getDomainDetails(reply)
    IN IF details.threw THEN GuideCatch(i)
       ELSE /\ messages' = addMessage(messages, BotText(details.value))
            /\ inflight' = [inflight EXCEPT ![i].pc = "getDomainRoadmap"]
            /\ UNCHANGED <<chatState, isLoading, context>>

\* promptForFinalFeedback, lines 260-264
promptForFinalFeedback(msgs) ==
    /\ messages' = addMessage(msgs, BotText(FeedbackPrompt))
    /\ chatState' = "AWAITING_FINAL_FEEDBACK"

\* generateAndDisplayDomainGuide asking for feedback before it shows the roadmap
AfterGetDomainRoadmapPromptFirst(i, reply) ==
    LET roadmapSteps == getDomainRoadmap(reply)
    IN IF roadmapSteps.threw THEN GuideCatch(i)
       ELSE /\ messages' = addMessage(addMessage(messages, BotText(FeedbackPrompt)),
                                      Message(BOT, <<>>, <<>>, <<>>, roadmapSteps.value))
            /\ chatState' = "AWAITING_FINAL_FEEDBACK"
            /\ isLoading' = FALSE
            /\ inflight' = Without(inflight, i)
            /\ UNCHANGED context

\* generateAndDisplayDomainGuide, lines 95-98 and 103-105 after the await of getDomainRoadmap
AfterGetDomainRoadmap(i, reply) ==
    LET roadmapSteps == getDomainRoadmap(reply)
    IN IF roadmapSteps.threw THEN GuideCatch(i)
       ELSE /\ promptForFinalFeedback(
                  addMessage(messages, Message(BOT, <<>>, <<>>, <<>>, roadmapSteps.value)))
            /\ isLoading' = FALSE
            /\ inflight' = Without(inflight, i)
            /\ UNCHANGED context

\* the setMessages updater rebuilding the marked message without its options
MarkAnsweredDroppingOptions(msgs, optionIndex, optionText) ==
    LET withOptions == {i \in 1..Len(msgs) : msgs[i].sender = BOT /\ msgs[i].options # <<>>}
        marked == IF withOptions = {} THEN msgs
                  ELSE LET last == CHOOSE i \in withOptions : \A j \in withOptions : j <= i
                       IN [msgs EXCEPT ![last].quizAnswered = TRUE,
                                       ![last].selectedOption = optionIndex,
                                       ![last].options = <<>>]
    IN Append(marked, Message(USER, optionText, <<>>, <<>>, <<>>))

\* the setMessages updater marking the first message with options, not the last
MarkAnsweredFirst(msgs, optionIndex, optionText) ==
    LET withOptions == {i \in 1..Len(msgs) : msgs[i].sender = BOT /\ msgs[i].options # <<>>}
        marked == IF withOptions = {} THEN msgs
                  ELSE LET first == CHOOSE i \in withOptions : \A j \in withOptions : i <= j
                       IN [msgs EXCEPT ![first].quizAnswered = TRUE,
                                       ![first].selectedOption = optionIndex]
    IN Append(marked, Message(USER, optionText, <<>>, <<>>, <<>>))

\* handleQuizAnswer, lines 278-297: the setMessages updater
MarkAnswered(msgs, optionIndex, optionText) ==
    LET withOptions == {i \in 1..Len(msgs) : msgs[i].sender = BOT /\ msgs[i].options # <<>>}
        marked == IF withOptions = {} THEN msgs
                  ELSE LET last == CHOOSE i \in withOptions : \A j \in withOptions : j <= i
                       IN [msgs EXCEPT ![last].quizAnswered = TRUE,
                                       ![last].selectedOption = optionIndex]
    IN Append(marked, Message(USER, optionText, <<>>, <<>>, <<>>))

\* handleQuizAnswer, lines 301-304: newQuizSession
RecordAnswer(qs, optionIndex) ==
    [qs EXCEPT !.userAnswers = Append(qs.userAnswers, optionIndex)]

\* handleQuizAnswer, lines 274-307: up to the await of the 500 ms timer
handleQuizAnswer(optionIndex, optionText) ==
    IF ~quizSession.present \/ quizSession.questions = <<>> THEN UNCHANGED prog
    ELSE /\ messages' = MarkAnswered(messages, optionIndex, optionText)
         /\ isLoading' = TRUE
         /\ quizSession' = RecordAnswer(quizSession, optionIndex)
         /\ inflight' = Append(inflight,
                Frame("handleQuizAnswer", "delay", "", RecordAnswer(quizSession, optionIndex), <<>>))
         /\ UNCHANGED <<chatState, studentName, classLevel, stream, geminiChat>>

\* handleQuizAnswer, lines 309-317 after the timer: the next question, or the
\* analysis request
AfterDelay(i) ==
    LET newQuizSession == inflight[i].qs
        updatedUserAnswers == newQuizSession.userAnswers
        currentQuestionIndex == Len(updatedUserAnswers) - 1
    IN IF Len(updatedUserAnswers) < Len(newQuizSession.questions)
       THEN /\ messages' = presentQuestion(messages, newQuizSession.questions, currentQuestionIndex + 1)
            /\ isLoading' = FALSE
            /\ inflight' = Without(inflight, i)
            /\ UNCHANGED <<chatState, context>>
       ELSE /\ chatState' = "ANALYZING_QUIZ"
            /\ messages' = addMessage(messages, BotText(Thanks))
            /\ inflight' = [inflight EXCEPT ![i].pc = "getQuizAnalysis",
                                            ![i].prompt = quizDataForPrompt(newQuizSession)]
            /\ UNCHANGED <<isLoading, context>>

\* handleQuizAnswer without a catch around getQuizAnalysis: the failure ends in
\* the generic apology and the state stays ANALYZING_QUIZ
AfterGetQuizAnalysisUncaught(i, reply) ==
    LET analysisResult == getQuizAnalysis(reply)
        newQuizSession == inflight[i].qs
    IN IF analysisResult.threw
       THEN CatchAndFinally(messages, i)
       ELSE LET msgs == addMessage(messages, Message(BOT, <<>>, <<>>, <<analysisResult.data>>, <<>>))
            IN IF analysisResult.isGoodFit
               THEN /\ StartGuide(msgs, "handleQuizAnswer", newQuizSession.interestedDomain,
                                  Without(inflight, i))
                    /\ UNCHANGED <<chatState, context>>
               ELSE /\ messages' = msgs
                    /\ chatState' = "AWAITING_ADJACENT_CHOICE"
                    /\ isLoading' = FALSE
                    /\ inflight' = Without(inflight, i)
                    /\ UNCHANGED context

\* AfterGetQuizAnalysis running the report path whatever the verdict
AfterGetQuizAnalysisAlwaysGuide(i, reply) ==
    LET analysisResult == getQuizAnalysis(reply)
        newQuizSession == inflight[i].qs
    IN IF analysisResult.threw
       THEN /\ messages' = addMessage(messages, BotText(AnalysisError))
            /\ chatState' = "AWAITING_INTERESTED_DOMAIN"
            /\ isLoading' = FALSE
            /\ inflight' = Without(inflight, i)
            /\ UNCHANGED context
       ELSE /\ StartGuide(addMessage(messages, Message(BOT, <<>>, <<>>, <<analysisResult.data>>, <<>>)),
                          "handleQuizAnswer", newQuizSession.interestedDomain,
                          Without(inflight, i))
            /\ UNCHANGED <<chatState, context>>

\* handleQuizAnswer, lines 317-334 after the await of getQuizAnalysis
AfterGetQuizAnalysis(i, reply) ==
    LET analysisResult == getQuizAnalysis(reply)
        newQuizSession == inflight[i].qs
    IN IF analysisResult.threw
       THEN /\ messages' = addMessage(messages, BotText(AnalysisError))
            /\ chatState' = "AWAITING_INTERESTED_DOMAIN"
            /\ isLoading' = FALSE
            /\ inflight' = Without(inflight, i)
            /\ UNCHANGED context
       ELSE LET msgs == addMessage(messages, Message(BOT, <<>>, <<>>, <<analysisResult.data>>, <<>>))
            IN IF analysisResult.isGoodFit
               THEN /\ StartGuide(msgs, "handleQuizAnswer", newQuizSession.interestedDomain,
                                  Without(inflight, i))
                    /\ UNCHANGED <<chatState, context>>
               ELSE /\ messages' = msgs
                    /\ chatState' = "AWAITING_ADJACENT_CHOICE"
                    /\ isLoading' = FALSE
                    /\ inflight' = Without(inflight, i)
                    /\ UNCHANGED context

(***************************************************************************)
(* The input components and the environment: one action per event.         *)
(***************************************************************************)
\* App.tsx:338
isQuizActive ==
    chatState = "IN_QUIZ" /\ quizSession.present /\ quizSession.questions # <<>>

\* App.tsx:376: the disabled prop of ChatInput
ChatInputDisabled == isLoading \/ chatState = "IN_QUIZ"

\* an event carrying a text: the bound on text turns, the record of the event
TextEvent(rawText) ==
    /\ used.turns < MaxTextTurns
    /\ ev' = [type |-> "text", arg |-> rawText]
    /\ used' = [used EXCEPT !.turns = IF messages' # messages THEN @ + 1 ELSE @]
    /\ UNCHANGED probe

\* the effect of App.tsx:72-76 has run (it runs on mount, before any input event)
Started == chatState # "INITIAL"

\* the effect of App.tsx:72-76
StartConversation ==
    /\ startConversation
    /\ ev' = [type |-> "start", arg |-> <<>>]
    /\ UNCHANGED <<used, probe>>

\* ChatInput.handleSubmit, part_000:225-231 (rendered by App.tsx:371-379)
ChatInputSubmit ==
    \E rawText \in UserTexts :
        /\ Started /\ ~isQuizActive
        /\ trim(rawText) # <<>> /\ ~ChatInputDisabled
        /\ handleUserMessage(rawText)
        /\ TextEvent(rawText)

\* recognition.onend of ChatInput, part_000:186-194: the final transcript of a
\* speech capture is sent without looking at the disabled prop
SpeechRecognitionEnd ==
    \E rawText \in SpokenTexts :
        /\ Started /\ ~isQuizActive
        /\ trim(rawText) # <<>>
        /\ handleUserMessage(trim(rawText))
        /\ TextEvent(rawText)

\* QuizOptions, QuizOptions.tsx:15-22, rendered by ChatMessage.tsx:91-98 for every
\* message with options; the buttons are disabled once the message is answered
\* QuizOptions never disabled
OptionAlwaysEnabled(m) == TRUE

OptionEnabled(m) == ~messages[m].quizAnswered

QuizOptionClick ==
    \E m \in 1..Len(messages) :
        /\ messages[m].options # <<>>
        /\ OptionEnabled(m)
        /\ \E optionIndex \in ClickChoices(messages[m].options) :
            /\ optionIndex # 0 => used.otherClicks < MaxOtherClicks
            /\ handleQuizAnswer(optionIndex, messages[m].options[optionIndex + 1])
            /\ ev' = [type |-> "click", arg |-> <<m, optionIndex>>]
            /\ used' = [used EXCEPT !.otherClicks = IF optionIndex # 0 THEN @ + 1 ELSE @]
            /\ UNCHANGED probe

\* the backend answers the call frame i awaits at pc
Deliver(i, pc, reply) ==
    /\ inflight[i].pc = pc
    /\ reply.detour => used.detours < MaxDetours
    /\ ev' = [type |-> pc, arg |-> reply]
    /\ used' = [used EXCEPT !.detours = IF reply.detour THEN @ + 1 ELSE @]
    /\ UNCHANGED probe

ExtractNameReturns ==
    \E i \in 1..Len(inflight) : \E reply \in NameReplies :
        Deliver(i, "extractNameFromText", reply) /\ AfterExtractName(i, reply)

ValidateStreamReturns ==
    \E i \in 1..Len(inflight) : \E reply \in ValidationReplies("Science") :
        Deliver(i, "validateStream", reply) /\ AfterValidateStream(i, reply)

ValidatePredictedDomainReturns ==
    \E i \in 1..Len(inflight) : \E reply \in ValidationReplies("Design") :
        Deliver(i, "validatePredictedDomain", reply) /\ AfterValidatePredictedDomain(i, reply)

ValidateInterestedDomainReturns ==
    \E i \in 1..Len(inflight) : \E reply \in ValidationReplies("Data Science") :
        Deliver(i, "validateInterestedDomain", reply) /\ AfterValidateInterestedDomain(i, reply)

ValidateAdjacentDomainReturns ==
    \E i \in 1..Len(inflight) : \E reply \in ValidationReplies("Accounting") :
        Deliver(i, "validateAdjacentDomain", reply) /\ AfterValidateAdjacentDomain(i, reply)

GetQuizQuestionsReturns ==
    \E i \in 1..Len(inflight) : \E reply \in QuizReplies :
        Deliver(i, "getQuizQuestions", reply) /\ AfterGetQuizQuestions(i, reply)

IsPositiveFeedbackReturns ==
    \E i \in 1..Len(inflight) : \E reply \in SentimentReplies :
        Deliver(i, "isPositiveFeedback", reply) /\ AfterIsPositiveFeedback(i, reply)

SendMessageReturns ==
    \E i \in 1..Len(inflight) : \E reply \in ChatReplies :
        Deliver(i, "sendMessage", reply) /\ AfterSendMessage(i, reply)

GetDomainDetailsReturns ==
    \E i \in 1..Len(inflight) : \E reply \in DetailsReplies :
        Deliver(i, "getDomainDetails", reply) /\ AfterGetDomainDetails(i, reply)

GetDomainRoadmapReturns ==
    \E i \in 1..Len(inflight) : \E reply \in RoadmapReplies :
        Deliver(i, "getDomainRoadmap", reply) /\ AfterGetDomainRoadmap(i, reply)

\* the 500 ms timer of App.tsx:307 fires
QuizDelayElapses ==
    \E i \in 1..Len(inflight) :
        /\ inflight[i].pc = "delay"
        /\ AfterDelay(i)
        /\ ev' = [type |-> "delay", arg |-> <<>>]
        /\ UNCHANGED <<used, probe>>

GetQuizAnalysisReturns ==
    \E i \in 1..Len(inflight) :
        /\ inflight[i].pc = "getQuizAnalysis"
        /\ \E reply \in AnalysisReplies(inflight[i].prompt) :
              Deliver(i, "getQuizAnalysis", reply) /\ AfterGetQuizAnalysis(i, reply)

\* a backend call or the timer returns
BackendReturns ==
    \/ ExtractNameReturns
    \/ ValidateStreamReturns
    \/ ValidatePredictedDomainReturns
    \/ ValidateInterestedDomainReturns
    \/ ValidateAdjacentDomainReturns
    \/ GetQuizQuestionsReturns
    \/ IsPositiveFeedbackReturns
    \/ SendMessageReturns
    \/ GetDomainDetailsReturns
    \/ GetDomainRoadmapReturns
    \/ QuizDelayElapses
    \/ GetQuizAnalysisReturns

NoProbe == [in |-> <<>>, out |-> <<>>, done |-> FALSE]

\* App.tsx:12-23: the state after construction
Init ==
    /\ messages = <<>>
    /\ chatState = "INITIAL"
    /\ isLoading = FALSE
    /\ studentName = <<>>
    /\ classLevel = ""
    /\ stream = ""
    /\ quizSession = NoQuizSession
    /\ geminiChat = FALSE
    /\ inflight = <<>>
    /\ ev = [type |-> "init", arg |-> <<>>]
    /\ used = [turns |-> 0, detours |-> 0, otherClicks |-> 0]
    /\ probe = NoProbe

Next ==
    \/ StartConversation
    \/ ChatInputSubmit
    \/ SpeechRecognitionEnd
    \/ QuizOptionClick
    \/ BackendReturns

Spec == Init /\ [][Next]_vars

\* every pending backend call and timer eventually returns
FairSpec == Spec /\ WF_vars(BackendReturns) /\ WF_vars(StartConversation)

(***************************************************************************)
(* sanitizeInput as a function: every raw text up to MaxRawLen characters. *)
(***************************************************************************)
RawAlphabet == {"a", "A", "b", " ", "\t"}

RawTexts == UNION {[1..n -> RawAlphabet] : n \in 0..MaxRawLen}

SanitizeInit ==
    /\ messages = <<>>
    /\ chatState = "INITIAL"
    /\ isLoading = FALSE
    /\ studentName = <<>>
    /\ classLevel = ""
    /\ stream = ""
    /\ quizSession = NoQuizSession
    /\ geminiChat = FALSE
    /\ inflight = <<>>
    /\ ev = [type |-> "init", arg |-> <<>>]
    /\ used = [turns |-> 0, detours |-> 0, otherClicks |-> 0]
    /\ probe \in {[in |-> raw, out |-> <<>>, done |-> FALSE] : raw \in RawTexts}

Sanitize ==
    /\ ~probe.done
    /\ probe' = [in |-> probe.in, out |-> sanitizeInput(probe.in), done |-> TRUE]
    /\ UNCHANGED <<prog, ev, used>>

SanitizeSpec == SanitizeInit /\ [][Sanitize]_vars

(***************************************************************************)
(* Properties.                                                             *)
(***************************************************************************)
Last(seq) == seq[Len(seq)]

\* index of the most recent user message, 0 if there is none
LastUserIndex(msgs) ==
    LET users == {i \in 1..Len(msgs) : msgs[i].sender = USER}
    IN IF users = {} THEN 0 ELSE CHOOSE i \in users : \A j \in users : j <= i

UserMessage(text) == Message(USER, text, <<>>, <<>>, <<>>)

\* the k-th smallest element of a set of numbers
Nth(S, k) == CHOOSE x \in S : Cardinality({y \in S : y < x}) = k - 1

\* the whitespace-delimited tokens of a text: its maximal runs of non-blank characters
Tokens(text) ==
    LET starts == {i \in 1..Len(text) :
                      ~IsSpace(text[i]) /\ (i = 1 \/ IsSpace(text[i - 1]))}
        EndOf(i) == CHOOSE j \in i..Len(text) :
                      /\ \A n \in i..j : ~IsSpace(text[n])
                      /\ (j = Len(text) \/ IsSpace(text[j + 1]))
    IN [k \in 1..Cardinality(starts) |-> SubSeq(text, Nth(starts, k), EndOf(Nth(starts, k)))]

\* the first token of every maximal run of case-insensitively equal tokens
RunHeads(tokens) ==
    LET heads == {j \in 1..Len(tokens) :
                     j = 1 \/ toLowerCase(tokens[j]) # toLowerCase(tokens[j - 1])}
    IN [k \in 1..Cardinality(heads) |-> tokens[Nth(heads, k)]]

\* C1: whenever quizSession.questions is set, userAnswers is no longer than
\* questions and each entry is a valid index into the options of the question
\* at its position.
C1_AnswersWithinQuiz ==
    quizSession.questions # <<>> =>
        /\ Len(quizSession.userAnswers) <= Len(quizSession.questions)
        /\ \A i \in 1..Len(quizSession.userAnswers) :
              quizSession.userAnswers[i] \in 0..(Len(quizSession.questions[i].options) - 1)

\* a quiz reply that is a backend error or fails the shape check (5 questions of 4 options)
QuizGenerationFails(reply) ==
    \/ ~reply.ok
    \/ ~reply.parses
    \/ Len(reply.items) # 5
    \/ \E k \in 1..Len(reply.items) : Len(reply.items[k].options) # 4

\* C2: when quiz generation fails in an interested-domain turn, the turn ends
\* with an error message appended and the state AWAITING_INTERESTED_DOMAIN.
C2_QuizFailureFallsBack ==
    (ev.type = "getQuizQuestions" /\ QuizGenerationFails(ev.arg)) =>
        /\ Last(messages).sender = BOT
        /\ ~isLoading
        /\ chatState = "AWAITING_INTERESTED_DOMAIN"

\* C3: after a turn that ended in the generic apology, the identical text
\* submitted as the next text turn is processed (it adds a transcript entry).
C3_RetryAfterApology ==
    [][(/\ ev'.type = "text"
        /\ ~isLoading
        /\ messages # <<>>
        /\ Last(messages).sender = BOT
        /\ Last(messages).text = Apology
        /\ LastUserIndex(messages) > 0
        /\ sanitizeInput(ev'.arg) = messages[LastUserIndex(messages)].text)
       => Len(messages') > Len(messages)]_vars

\* the calls a text turn makes for validation or extraction, and the follow-up send
ValidationCalls ==
    {"extractNameFromText", "validateStream", "validatePredictedDomain",
     "validateInterestedDomain", "validateAdjacentDomain", "isPositiveFeedback",
     "sendMessage"}

\* C4: a transport failure of a validation/extraction call or of the follow-up
\* send appends exactly the generic apology after the user's message and leaves
\* the dialogue state, studentName, classLevel, stream, quizSession and the
\* follow-up handle as they were before the turn.
C4_TransportFailureKeepsSession ==
    [][/\ (ev'.type \in ValidationCalls /\ ~ev'.arg.ok) =>
              /\ Last(messages).sender = USER
              /\ messages' = Append(messages, BotText(Apology))
              /\ ~isLoading'
              /\ UNCHANGED session
       /\ (/\ ev'.type = "text"
           /\ Len(inflight') > Len(inflight)
           /\ Last(inflight').pc \in ValidationCalls) =>
              /\ messages' = Append(messages, UserMessage(sanitizeInput(ev'.arg)))
              /\ UNCHANGED session]_vars

C4_Witness ==
    /\ ev.type = "isPositiveFeedback"
    /\ ~ev.arg.ok
    /\ chatState = "AWAITING_FINAL_FEEDBACK"
    /\ Last(messages).text = Apology

\* C5: a turn that suspends on a backend call or the timer has set the busy
\* flag; whenever no turn is in progress the busy flag is false; and once set,
\* the busy flag is eventually false again.
C5_BusyFlagReleased ==
    /\ [][/\ Len(inflight') > Len(inflight) => isLoading'
          /\ inflight' = <<>> => ~isLoading']_vars
    /\ (isLoading ~> ~isLoading)

C5_Witness ==
    /\ ev.type = "getQuizAnalysis"
    /\ ~ev.arg.ok
    /\ inflight = <<>>
    /\ ~isLoading

\* C6: a text turn that arrives while the busy flag is set changes nothing:
\* no transcript entry, no backend call, no change of state or context, and
\* nothing is kept to be processed later.
C6_BusyTurnDropped ==
    [][(ev'.type = "text" /\ isLoading) => UNCHANGED <<prog, used>>]_vars

C6_Witness ==
    /\ ev.type = "text"
    /\ isLoading
    /\ Len(inflight) = 1
    /\ inflight[1].pc = "getDomainRoadmap"

\* C7: at most one turn (text turn or quiz-answer event) is in progress.
C7_SingleTurn == Len(inflight) <= 1

C7_Witness ==
    /\ ev.type = "text"
    /\ isLoading
    /\ Len(inflight) = 1
    /\ inflight[1].fn = "handleQuizAnswer"
    /\ inflight[1].pc = "getQuizAnalysis"

\* C8: a text turn whose normalized text equals, case-insensitively, the text
\* of the most recent user message changes nothing.
C8_DuplicateTurnIsNoOp ==
    [][(/\ ev'.type = "text"
        /\ LastUserIndex(messages) > 0
        /\ toLowerCase(sanitizeInput(ev'.arg))
             = toLowerCase(messages[LastUserIndex(messages)].text))
       => UNCHANGED <<prog, used>>]_vars

C8_Witness ==
    /\ ev.type = "text"
    /\ ~isLoading
    /\ LastUserIndex(messages) > 0
    /\ sanitizeInput(ev.arg) # messages[LastUserIndex(messages)].text
    /\ toLowerCase(sanitizeInput(ev.arg)) = toLowerCase(messages[LastUserIndex(messages)].text)

\* C9: sanitizeInput keeps the first token of every maximal run of
\* case-insensitively equal tokens, in order, separated by single blanks; its
\* result has no two adjacent case-insensitively equal tokens, and sanitizing
\* the result again changes nothing.
C9_SanitizeCollapsesRuns ==
    probe.done =>
        LET result == Tokens(probe.out)
        IN /\ result = RunHeads(Tokens(probe.in))
           /\ probe.out = join(result)
           /\ \A k \in 1..(Len(result) - 1) :
                 toLowerCase(result[k]) # toLowerCase(result[k + 1])
           /\ sanitizeInput(probe.out) = probe.out

C9_Witness ==
    /\ probe.done
    /\ probe.in = <<"a", "\t", "A", " ", "b">>
    /\ probe.out = <<"a", " ", "b">>

\* an accepted text turn in AWAITING_CLASS_LEVEL
ClassLevelTurn ==
    /\ ev'.type = "text"
    /\ chatState = "AWAITING_CLASS_LEVEL"
    /\ Len(messages') > Len(messages)

\* C10 as stated: "10" anywhere gives Class 10 and AWAITING_PREDICTED_DOMAIN,
\* "12" anywhere gives Class 12 and AWAITING_STREAM, anything else one re-prompt;
\* no backend call.
C10_ClassLevelAsStated ==
    [][ClassLevelTurn =>
        LET text == sanitizeInput(ev'.arg)
        IN /\ includes(text, W10) =>
                 chatState' = "AWAITING_PREDICTED_DOMAIN" /\ classLevel' = "Class 10"
           /\ includes(text, W12) =>
                 chatState' = "AWAITING_STREAM" /\ classLevel' = "Class 12"
           /\ (~includes(text, W10) /\ ~includes(text, W12)) =>
                 /\ UNCHANGED <<chatState, classLevel>>
                 /\ messages' = Append(Append(messages, UserMessage(text)), BotText(ClassReprompt))
           /\ inflight' = inflight]_vars

\* C10 amended: "12" gives Class 12 and AWAITING_STREAM only when the input
\* does not contain "10".
C10_ClassLevel ==
    [][ClassLevelTurn =>
        LET text == sanitizeInput(ev'.arg)
        IN /\ includes(text, W10) =>
                 chatState' = "AWAITING_PREDICTED_DOMAIN" /\ classLevel' = "Class 10"
           /\ (includes(text, W12) /\ ~includes(text, W10)) =>
                 chatState' = "AWAITING_STREAM" /\ classLevel' = "Class 12"
           /\ (~includes(text, W10) /\ ~includes(text, W12)) =>
                 /\ UNCHANGED <<chatState, classLevel>>
                 /\ messages' = Append(Append(messages, UserMessage(text)), BotText(ClassReprompt))
           /\ inflight' = inflight]_vars

C10_Witness ==
    /\ ev.type = "text"
    /\ includes(sanitizeInput(ev.arg), W12)
    /\ ~includes(sanitizeInput(ev.arg), W10)
    /\ chatState = "AWAITING_STREAM"
    /\ classLevel = "Class 12"
    /\ inflight = <<>>

\* the message announcing a freshly requested quiz (App.tsx:198-199)
IsQuizAnnouncement(m) ==
    m.sender = BOT /\ Len(m.text) = 2 /\ m.text[1] = "Great! Let's explore"

\* index of the announcement of the current quiz, 0 if no quiz was requested
CurrentQuizStart(msgs) ==
    LET starts == {i \in 1..Len(msgs) : IsQuizAnnouncement(msgs[i])}
    IN IF starts = {} THEN 0 ELSE CHOOSE i \in starts : \A j \in starts : j <= i

\* the question messages of the current quiz, in transcript order
CurrentQuizMessages(msgs) ==
    LET shown == {i \in (CurrentQuizStart(msgs) + 1)..Len(msgs) : msgs[i].options # <<>>}
    IN [k \in 1..Cardinality(shown) |-> msgs[Nth(shown, k)]]

\* C11: ANALYZING_QUIZ is entered only by the continuation of a quiz-answer
\* event, and only when the 5 questions of the current quiz have each been
\* presented once, in order, and answered.
C11_AnalysisAfterFiveAnswers ==
    [][(chatState' = "ANALYZING_QUIZ" /\ chatState # "ANALYZING_QUIZ") =>
        /\ ev'.type = "delay"
        /\ LET shown == CurrentQuizMessages(messages')
           IN /\ Len(shown) = 5
              /\ \A k \in 1..5 :
                    /\ shown[k].text = <<"Question", k, 5, quizSession'.questions[k].question>>
                    /\ shown[k].quizAnswered]_vars

\* C12: whenever the analysis is requested, position i of the prompt pairs
\* question i of the current quiz with the option text at its
\* correctAnswerIndex and with the option text the user selected for that
\* question of that quiz.
C12_PromptPairsCurrentAnswers ==
    \A f \in 1..Len(inflight) :
        inflight[f].pc = "getQuizAnalysis" =>
            LET prompt == inflight[f].prompt
                questions == inflight[f].qs.questions
                shown == CurrentQuizMessages(messages)
            IN /\ Len(prompt) = 5
               /\ Len(shown) = 5
               /\ \A i \in 1..5 :
                     /\ prompt[i].question = questions[i].question
                     /\ prompt[i].correctAnswer
                          = At(questions[i].options, questions[i].correctAnswerIndex)
                     /\ shown[i].text = <<"Question", i, 5, questions[i].question>>
                     /\ shown[i].quizAnswered
                     /\ prompt[i].studentAnswer = At(shown[i].options, shown[i].selectedOption)

\* the number of entries of a breakdown flagged correct
CorrectFlags(breakdown) ==
    Cardinality({i \in 1..Len(breakdown) : breakdown[i].isCorrect})

\* C13: for every analysis getQuizAnalysis returns, isGoodFit is true exactly
\* when at least 4 entries of the returned questionBreakdown are flagged
\* correct, whatever the headline says; the controller branches on that verdict.
C13_GoodFitIffFourFlags ==
    (ev.type = "getQuizAnalysis" /\ ev.arg.ok /\ ev.arg.parses) =>
        LET analysisResult == getQuizAnalysis(ev.arg)
        IN /\ ~analysisResult.threw
           /\ analysisResult.data.questionBreakdown = ev.arg.questionBreakdown
           /\ analysisResult.isGoodFit <=> CorrectFlags(ev.arg.questionBreakdown) >= 4
           /\ (chatState = "AWAITING_ADJACENT_CHOICE")
                <=> CorrectFlags(ev.arg.questionBreakdown) < 4

C13_Witness ==
    /\ ev.type = "getQuizAnalysis"
    /\ ev.arg.ok /\ ev.arg.parses
    /\ ev.arg.headline.label = "Medium Performance"
    /\ CorrectFlags(ev.arg.questionBreakdown) >= 4
    /\ chatState = "ANALYZING_QUIZ"
    /\ Len(inflight) = 1
    /\ inflight[1].pc = "getDomainDetails"

\* the answer recorded for question i (1-based) of a quiz session is the correct one
RecordedCorrect(qs, i) ==
    /\ i \in 1..Len(qs.userAnswers)
    /\ i \in 1..Len(qs.questions)
    /\ qs.userAnswers[i] = qs.questions[i].correctAnswerIndex

\* C14: in every analysis the controller attaches to the transcript, entry i of
\* questionBreakdown is flagged correct exactly when the answer recorded for
\* question i equals its correctAnswerIndex, and the good-fit branch is taken
\* exactly when at least 4 recorded answers are correct.
C14_BreakdownAgreesWithAnswers ==
    [][(/\ ev'.type = "getQuizAnalysis"
        /\ Len(inflight) = 1
        /\ Len(messages') > Len(messages)
        /\ messages'[Len(messages) + 1].analysis # <<>>)
       => LET qs == inflight[1].qs
              breakdown == messages'[Len(messages) + 1].analysis[1].questionBreakdown
          IN /\ \A i \in 1..Len(breakdown) :
                   breakdown[i].isCorrect <=> RecordedCorrect(qs, i)
             /\ (chatState' # "AWAITING_ADJACENT_CHOICE")
                   <=> Cardinality({i \in 1..Len(qs.questions) : RecordedCorrect(qs, i)}) >= 4]_vars

\* C15: when the analysis of a completed quiz succeeds, the analysis message
\* is appended; with fewer than 4 correct flags the state becomes
\* AWAITING_ADJACENT_CHOICE and no report is requested; otherwise the report
\* is requested for the quiz's interestedDomain.
C15_AnalysisOutcome ==
    [][(/\ ev'.type = "getQuizAnalysis"
        /\ ev'.arg.ok /\ ev'.arg.parses
        /\ Len(inflight) = 1)
       => LET analysis == Message(BOT, <<>>, <<>>,
                                  <<[headline |-> ev'.arg.headline,
                                     questionBreakdown |-> ev'.arg.questionBreakdown]>>, <<>>)
              domain == quizSession.interestedDomain
          IN IF CorrectFlags(ev'.arg.questionBreakdown) < 4
             THEN /\ messages' = Append(messages, analysis)
                  /\ chatState' = "AWAITING_ADJACENT_CHOICE"
                  /\ inflight' = <<>>
                  /\ ~isLoading'
                  /\ UNCHANGED context
             ELSE /\ Len(messages') = Len(messages) + 2
                  /\ SubSeq(messages', 1, Len(messages) + 1) = Append(messages, analysis)
                  /\ Last(messages').sender = BOT
                  /\ Last(messages').text[2] = domain
                  /\ Len(inflight') = 1
                  /\ inflight'[1].pc = "getDomainDetails"
                  /\ inflight'[1].domain = domain
                  /\ isLoading'
                  /\ UNCHANGED <<chatState, context>>]_vars

C15_Witness ==
    /\ ev.type = "getQuizAnalysis"
    /\ ev.arg.ok /\ ev.arg.parses
    /\ Len(ev.arg.questionBreakdown) = 5
    /\ CorrectFlags(ev.arg.questionBreakdown) = 3
    /\ Last(messages).analysis # <<>>
    /\ chatState = "AWAITING_ADJACENT_CHOICE"
    /\ inflight = <<>>

\* C16: getQuizQuestions returns the parsed questions exactly when they are 5
\* questions of 4 options each; for any other reply it fails and returns no
\* questions, so quizSession.questions never holds a quiz of another shape.
C16_OnlyWellShapedQuiz ==
    [][/\ ev'.type = "getQuizQuestions" =>
            LET r == getQuizQuestions(ev'.arg)
            IN IF QuizGenerationFails(ev'.arg)
               THEN /\ r.threw
                    /\ r.value = <<>>
                    /\ quizSession' = quizSession
               ELSE /\ ~r.threw
                    /\ r.value = ev'.arg.items
                    /\ quizSession'.questions = ev'.arg.items
       /\ quizSession'.questions # <<>> =>
            /\ Len(quizSession'.questions) = 5
            /\ \A k \in 1..5 : Len(quizSession'.questions[k].options) = 4]_vars

C16_Witness ==
    /\ ev.type = "getQuizQuestions"
    /\ ev.arg.ok /\ ev.arg.parses
    /\ Len(ev.arg.items) = 5
    /\ \E k \in 1..5 : Len(ev.arg.items[k].options) = 5
    /\ quizSession.questions = <<>>
    /\ Last(messages).text = Apology

\* C17: every question stored in quizSession.questions has a
\* correctAnswerIndex in 0..3, a valid index into its 4 options.
C17_CorrectIndexInRange ==
    \A k \in 1..Len(quizSession.questions) :
        /\ quizSession.questions[k].correctAnswerIndex \in 0..3
        /\ quizSession.questions[k].correctAnswerIndex + 1
             \in 1..Len(quizSession.questions[k].options)

\* C18: getQuizAnalysis returns only an analysis whose questionBreakdown has
\* exactly 5 entries; an unparsable reply or one with fewer entries is a
\* failure raised to the caller, so no partial analysis reaches the transcript.
C18_AnalysisNeverPartial ==
    [][ev'.type = "getQuizAnalysis" =>
        LET r == getQuizAnalysis(ev'.arg)
        IN /\ ~r.threw => Len(r.data.questionBreakdown) = 5
           /\ (ev'.arg.ok /\ (~ev'.arg.parses \/ Len(ev'.arg.questionBreakdown) < 5)) =>
                 /\ r.threw
                 /\ Last(messages').text = AnalysisError
           /\ \A m \in 1..Len(messages') :
                 messages'[m].analysis # <<>> =>
                    Len(messages'[m].analysis[1].questionBreakdown) = 5]_vars

\* C19: getDomainRoadmap returns only roadmaps of exactly 3 steps, any other
\* reply being a failure, so every roadmap attached to a transcript message
\* has exactly 3 steps.
C19_RoadmapHasThreeSteps ==
    [][/\ ev'.type = "getDomainRoadmap" =>
            LET r == getDomainRoadmap(ev'.arg)
            IN /\ ~r.threw => Len(r.value) = 3
               /\ (ev'.arg.ok /\ (~ev'.arg.parses \/ Len(ev'.arg.items) # 3)) =>
                     /\ r.threw
                     /\ Last(messages').text = GuideError
       /\ \A m \in 1..Len(messages') :
             messages'[m].roadmap # <<>> => Len(messages'[m].roadmap) = 3]_vars

\* the stream and domain validation calls
StreamAndDomainCalls ==
    {"validateStream", "validatePredictedDomain", "validateInterestedDomain",
     "validateAdjacentDomain"}

\* the re-prompt of the case that made the call
RepromptFor(call) ==
    CASE call = "validateStream" -> StreamReprompt
      [] call = "validatePredictedDomain" -> PredictedReprompt
      [] call = "validateInterestedDomain" -> InterestedReprompt
      [] call = "validateAdjacentDomain" -> AdjacentReprompt

\* C20: a stream or domain validation reply that arrives is accepted only when
\* it parses, carries a boolean validity flag that is true and a non-empty
\* label; every other reply (unparsable, no flag, flag false, empty label)
\* takes the re-prompt branch of the case, never the generic apology.
C20_MalformedValidationReprompts ==
    [][(ev'.type \in StreamAndDomainCalls /\ ev'.arg.ok) =>
        IF ev'.arg.parses /\ ev'.arg.hasFlag /\ ev'.arg.isValid /\ ev'.arg.name # ""
        THEN /\ Len(messages') = Len(messages) + 1
             /\ Last(messages').text # RepromptFor(ev'.type)
             /\ Last(messages').text # Apology
             /\ CASE ev'.type = "validateStream" ->
                       stream' = ev'.arg.name /\ chatState' = "AWAITING_PREDICTED_DOMAIN"
                  [] ev'.type = "validatePredictedDomain" ->
                       /\ quizSession'.predictedDomain = ev'.arg.name
                       /\ chatState' = "AWAITING_SATISFACTION"
                  [] ev'.type = "validateInterestedDomain" ->
                       /\ quizSession'.interestedDomain = ev'.arg.name
                       /\ chatState' = "GENERATING_QUIZ"
                  [] ev'.type = "validateAdjacentDomain" ->
                       /\ Len(inflight') = 1
                       /\ inflight'[1].pc = "getDomainDetails"
                       /\ inflight'[1].domain = ev'.arg.name
        ELSE /\ messages' = Append(messages, BotText(RepromptFor(ev'.type)))
             /\ inflight' = <<>>
             /\ ~isLoading'
             /\ UNCHANGED session]_vars

C20_Witness ==
    /\ ev.type = "validateStream"
    /\ ev.arg.ok /\ ev.arg.parses /\ ev.arg.hasFlag /\ ev.arg.isValid
    /\ ev.arg.name = ""
    /\ Last(messages).text = StreamReprompt
    /\ chatState = "AWAITING_STREAM"
    /\ stream = ""

\* a validation reply that arrived and does not accept the input
ValidationRejects(reply) ==
    reply.ok /\ ~(reply.parses /\ reply.hasFlag /\ reply.isValid /\ reply.name # "")

\* C21: a text turn of AWAITING_STREAM, AWAITING_PREDICTED_DOMAIN,
\* AWAITING_INTERESTED_DOMAIN or AWAITING_ADJACENT_CHOICE whose input is
\* rejected leaves chatState, studentName, classLevel, stream and quizSession
\* unchanged and adds exactly the user's message and then one re-prompt.
C21_RejectionRepromptsInPlace ==
    [][/\ (/\ ev'.type = "text"
           /\ Len(inflight') > Len(inflight)
           /\ Last(inflight').pc \in StreamAndDomainCalls) =>
              /\ messages' = Append(messages, UserMessage(sanitizeInput(ev'.arg)))
              /\ UNCHANGED <<chatState, studentName, classLevel, stream, quizSession>>
       /\ (ev'.type \in StreamAndDomainCalls /\ ValidationRejects(ev'.arg)) =>
              /\ Last(messages).sender = USER
              /\ messages' = Append(messages, BotText(RepromptFor(ev'.type)))
              /\ UNCHANGED <<chatState, studentName, classLevel, stream, quizSession>>]_vars

C21_Witness ==
    /\ ev.type = "validateInterestedDomain"
    /\ ev.arg.ok /\ ev.arg.parses /\ ev.arg.hasFlag /\ ~ev.arg.isValid
    /\ chatState = "AWAITING_INTERESTED_DOMAIN"
    /\ Len(messages) >= 2
    /\ messages[Len(messages) - 1].sender = USER
    /\ Last(messages).text = InterestedReprompt

\* C22: in AWAITING_NAME an accepted text turn whose normalized input has at
\* most 2 whitespace-delimited tokens makes no backend call, sets studentName
\* to the input and ends in AWAITING_CLASS_LEVEL without the apology; with more
\* tokens the backend is asked, and when its call succeeds the name is the
\* (trimmed) text it returns and the state becomes AWAITING_CLASS_LEVEL.
C22_ShortNameSkipsBackend ==
    [][/\ (/\ ev'.type = "text"
           /\ chatState = "AWAITING_NAME"
           /\ Len(messages') > Len(messages)) =>
              LET text == sanitizeInput(ev'.arg)
              IN IF Len(Tokens(text)) <= 2
                 THEN /\ inflight' = inflight
                      /\ ~isLoading'
                      /\ studentName' = text
                      /\ chatState' = "AWAITING_CLASS_LEVEL"
                      /\ Len(messages') = Len(messages) + 2
                      /\ Last(messages').text # Apology
                 ELSE /\ Len(inflight') = Len(inflight) + 1
                      /\ Last(inflight').pc = "extractNameFromText"
                      /\ UNCHANGED <<chatState, studentName>>
       /\ (ev'.type = "extractNameFromText" /\ ev'.arg.ok) =>
              /\ studentName' = trim(ev'.arg.text)
              /\ chatState' = "AWAITING_CLASS_LEVEL"
              /\ Last(messages').text # Apology]_vars

C22_Witness ==
    /\ ev.type = "text"
    /\ Len(Tokens(ev.arg)) = 3
    /\ Len(Tokens(sanitizeInput(ev.arg))) = 2
    /\ studentName = sanitizeInput(ev.arg)
    /\ chatState = "AWAITING_CLASS_LEVEL"
    /\ inflight = <<>>

\* the dialogue states whose text turn validates a domain, with the call each makes
DomainCallOf(state) ==
    CASE state = "AWAITING_PREDICTED_DOMAIN" -> "validatePredictedDomain"
      [] state = "AWAITING_INTERESTED_DOMAIN" -> "validateInterestedDomain"
      [] state = "AWAITING_ADJACENT_CHOICE" -> "validateAdjacentDomain"
      [] OTHER -> "none"

\* C23: a domain input of at most 3 whitespace-delimited tokens is accepted as
\* it stands, without a backend validation call: the turn does not wait for
\* validateDomain and moves on as an accepted domain does.
C23_ShortDomainSkipsBackend ==
    [][(/\ ev'.type = "text"
        /\ DomainCallOf(chatState) # "none"
        /\ Len(messages') > Len(messages)
        /\ Len(Tokens(sanitizeInput(ev'.arg))) <= 3)
       => /\ \A f \in 1..Len(inflight') : inflight'[f].pc # DomainCallOf(chatState)
          /\ Last(messages').sender = BOT
          /\ Last(messages').text # RepromptFor(DomainCallOf(chatState))
          /\ Last(messages').text # Apology]_vars

\* a text that, trimmed, is the token POSITIVE in any letter case
IsPositiveToken(text) ==
    LET token == trim(text)
    IN /\ Len(token) = Len(WPOSITIVE)
       /\ \A i \in 1..Len(token) : token[i] \in {WPOSITIVE[i], Wpositive[i]}

\* C24: a text turn of AWAITING_FINAL_FEEDBACK whose sentiment call succeeds
\* ends in POST_GUIDANCE_CHAT with the follow-up handle created exactly when
\* the reply, trimmed and compared case-insensitively, is POSITIVE; for every
\* other reply it ends in AWAITING_INTERESTED_DOMAIN without a handle.
C24_PositiveTokenOpensChat ==
    [][(ev'.type = "isPositiveFeedback" /\ ev'.arg.ok) =>
        /\ chatState = "AWAITING_FINAL_FEEDBACK"
        /\ ~geminiChat
        /\ inflight' = <<>>
        /\ ~isLoading'
        /\ IF IsPositiveToken(ev'.arg.text)
           THEN chatState' = "POST_GUIDANCE_CHAT" /\ geminiChat'
           ELSE chatState' = "AWAITING_INTERESTED_DOMAIN" /\ ~geminiChat']_vars

C24_Witness ==
    /\ ev.type = "isPositiveFeedback"
    /\ ev.arg.ok
    /\ ev.arg.text # WPOSITIVE
    /\ IsPositiveToken(ev.arg.text)
    /\ chatState = "POST_GUIDANCE_CHAT"
    /\ geminiChat

\* C25: once the state is POST_GUIDANCE_CHAT it stays POST_GUIDANCE_CHAT and
\* the session context never changes again; an accepted text turn there adds
\* the user's message and then exactly one bot message, the handle's reply
\* verbatim or an error message, whether the follow-up call succeeds or fails.
C25_PostGuidanceChatAbsorbing ==
    [][chatState = "POST_GUIDANCE_CHAT" =>
        /\ chatState' = "POST_GUIDANCE_CHAT"
        /\ UNCHANGED context
        /\ (ev'.type = "text" /\ Len(messages') > Len(messages)) =>
              /\ messages' = Append(messages, UserMessage(sanitizeInput(ev'.arg)))
              /\ Len(inflight') = 1
              /\ inflight'[1].pc = "sendMessage"
        /\ ev'.type = "sendMessage" =>
              /\ Last(messages).sender = USER
              /\ messages' = Append(messages,
                                    BotText(IF ev'.arg.ok THEN ev'.arg.text ELSE Apology))
              /\ inflight' = <<>>
              /\ ~isLoading'
        /\ ev'.type \in {"text", "sendMessage"} \/ UNCHANGED prog]_vars

C25_Witness ==
    /\ ev.type = "sendMessage"
    /\ ~ev.arg.ok
    /\ chatState = "POST_GUIDANCE_CHAT"
    /\ Last(messages).text = Apology
    /\ inflight = <<>>

\* C26: the follow-up handle exists exactly when the state is
\* POST_GUIDANCE_CHAT; it is created once, on the transition into that state,
\* and never dropped, so the 'handle missing' message is never said.
C26_ChatHandleIffPostGuidance ==
    [][/\ geminiChat' <=> chatState' = "POST_GUIDANCE_CHAT"
       /\ geminiChat => geminiChat'
       /\ (~geminiChat /\ geminiChat') =>
             /\ chatState = "AWAITING_FINAL_FEEDBACK"
             /\ ev'.type = "isPositiveFeedback"
       /\ \A m \in 1..Len(messages') :
             messages'[m].sender = BOT => messages'[m].text # NoChat]_vars

C26_Witness ==
    /\ ev.type = "sendMessage"
    /\ ev.arg.ok
    /\ geminiChat
    /\ chatState = "POST_GUIDANCE_CHAT"
    /\ Last(messages).text = ev.arg.text

\* what a message says and carries, without its answered flag and chosen index
Content(m) == <<m.sender, m.text, m.options, m.analysis, m.roadmap>>

\* C27: the transcript is append-only: every step keeps the transcript it
\* started from as a prefix with respect to sender, text, options, analysis and
\* roadmap; nothing is removed or reordered.
C27_TranscriptAppendOnly ==
    [][/\ Len(messages') >= Len(messages)
       /\ \A m \in 1..Len(messages) : Content(messages'[m]) = Content(messages[m])]_vars

C27_Witness ==
    /\ ev.type = "click"
    /\ Last(messages).sender = USER
    /\ ev.arg[1] < Len(messages)
    /\ messages[ev.arg[1]].quizAnswered
    /\ messages[ev.arg[1]].options # <<>>
    /\ messages[ev.arg[1]].selectedOption = ev.arg[2]
    /\ \E m \in 1..Len(messages) : messages[m].analysis # <<>>

\* C28: for every message with options the answered flag is set at most once
\* and never cleared, the chosen index is written with it and never changes
\* afterwards, and it is the index clicked on that very message.
C28_AnsweredOnceByOwnClick ==
    [][\A m \in 1..Len(messages) :
          messages[m].options # <<>> =>
             /\ messages[m].quizAnswered =>
                   /\ messages'[m].quizAnswered
                   /\ messages'[m].selectedOption = messages[m].selectedOption
             /\ (~messages[m].quizAnswered /\ messages'[m].quizAnswered) =>
                   /\ ev'.type = "click"
                   /\ ev'.arg = <<m, messages'[m].selectedOption>>
             /\ ~messages'[m].quizAnswered =>
                   /\ messages'[m].selectedOption = messages[m].selectedOption
                   /\ ~(ev'.type = "click" /\ ev'.arg[1] = m /\ Len(messages') > Len(messages))]_vars

C28_Witness ==
    /\ ev.type = "click"
    /\ ev.arg[2] # 0
    /\ messages[ev.arg[1]].quizAnswered
    /\ messages[ev.arg[1]].selectedOption = ev.arg[2]
    /\ \E m \in 1..(ev.arg[1] - 1) :
          /\ messages[m].options # <<>>
          /\ messages[m].quizAnswered
          /\ messages[m].selectedOption = 0

\* C29: a text turn processed in AWAITING_SATISFACTION whose lower-cased input
\* contains "satisfied" and not "not" starts report generation for
\* quizSession.predictedDomain; any other input makes no backend call, appends
\* one message asking for an interested domain and moves to
\* AWAITING_INTERESTED_DOMAIN.  No quiz is generated from this state.
C29_SatisfactionBranches ==
    [][chatState = "AWAITING_SATISFACTION" =>
          /\ quizSession' = quizSession
          /\ \A i \in 1..Len(inflight') : inflight'[i].pc # "getQuizQuestions"
          /\ (ev'.type = "text" /\ Len(messages') > Len(messages)) =>
                LET lowerCaseInput == toLowerCase(ev'.arg)
                IN IF includes(lowerCaseInput, Wsatisfied) /\ ~includes(lowerCaseInput, Wnot)
                   THEN /\ Len(inflight') = 1
                        /\ inflight'[1].pc = "getDomainDetails"
                        /\ inflight'[1].domain = quizSession.predictedDomain
                        /\ quizSession.predictedDomain # ""
                        /\ Len(messages') = Len(messages) + 2
                        /\ chatState' = "AWAITING_SATISFACTION"
                   ELSE /\ inflight' = <<>>
                        /\ inflight = <<>>
                        /\ messages' = Append(Append(messages, UserMessage(sanitizeInput(ev'.arg))),
                                              BotText(AskInterested))
                        /\ chatState' = "AWAITING_INTERESTED_DOMAIN"
                        /\ ~isLoading']_vars

C29_Witness ==
    /\ ev.type = "text"
    /\ ev.arg = W12 \o SP \o WSatisfied
    /\ chatState = "AWAITING_SATISFACTION"
    /\ Len(inflight) = 1
    /\ inflight[1].pc = "getDomainDetails"
    /\ inflight[1].domain = "Design"
    /\ quizSession.predictedDomain = "Design"

\* C30: a text turn in AWAITING_ADJACENT_CHOICE whose domain is accepted runs
\* report generation for the accepted domain and bypasses the quiz: the state
\* never becomes GENERATING_QUIZ, IN_QUIZ or ANALYZING_QUIZ, no question is
\* presented and quizSession is left unchanged.
C30_AdjacentChoiceBypassesQuiz ==
    [][chatState = "AWAITING_ADJACENT_CHOICE" =>
          /\ chatState' \in {"AWAITING_ADJACENT_CHOICE", "AWAITING_FINAL_FEEDBACK",
                             "AWAITING_INTERESTED_DOMAIN"}
          /\ quizSession' = quizSession
          /\ \A m \in (Len(messages) + 1)..Len(messages') : messages'[m].options = <<>>
          /\ \A i \in 1..Len(inflight') :
                inflight'[i].pc \in {"validateAdjacentDomain", "getDomainDetails", "getDomainRoadmap"}
          /\ (ev'.type = "validateAdjacentDomain" /\ ev'.arg.ok /\ ~ValidationRejects(ev'.arg)) =>
                /\ Len(inflight') = 1
                /\ inflight'[1].pc = "getDomainDetails"
                /\ inflight'[1].domain = ev'.arg.name
                /\ chatState' = "AWAITING_ADJACENT_CHOICE"
          /\ (ev'.type = "getDomainRoadmap" /\ chatState' = "AWAITING_FINAL_FEEDBACK") =>
                /\ Last(messages').text = FeedbackPrompt
                /\ messages'[Len(messages') - 1].roadmap # <<>>]_vars

C30_Witness ==
    /\ ev.type = "getDomainRoadmap"
    /\ chatState = "AWAITING_FINAL_FEEDBACK"
    /\ quizSession.interestedDomain = "Data Science"
    /\ Len(quizSession.userAnswers) = QuizLength
    /\ \E m \in 1..Len(messages) :
          /\ messages[m].sender = BOT
          /\ messages[m].text = <<"Awesome! I'm putting together a detailed guide ... for", "Accounting">>

\* C31: studentName, classLevel and stream are each assigned at most once, in
\* the intake state that asks for them and on the step that leaves it, and a
\* non-empty value never changes or gets cleared afterwards, whatever fails and
\* however often the dialogue loops back to AWAITING_INTERESTED_DOMAIN.
C31_IntakeFieldsSetOnce ==
    [][/\ studentName # <<>> => studentName' = studentName
       /\ classLevel # "" => classLevel' = classLevel
       /\ stream # "" => stream' = stream
       /\ studentName' # studentName =>
             /\ chatState = "AWAITING_NAME"
             /\ chatState' = "AWAITING_CLASS_LEVEL"
       /\ classLevel' # classLevel =>
             /\ chatState = "AWAITING_CLASS_LEVEL"
             /\ chatState' \in {"AWAITING_PREDICTED_DOMAIN", "AWAITING_STREAM"}
       /\ stream' # stream =>
             /\ chatState = "AWAITING_STREAM"
             /\ chatState' = "AWAITING_PREDICTED_DOMAIN"]_vars

C31_Witness ==
    /\ ev.type = "getDomainDetails"
    /\ ~ev.arg.ok
    /\ chatState = "AWAITING_INTERESTED_DOMAIN"
    /\ studentName = Wal
    /\ classLevel = "Class 12"
    /\ stream = "Science"

\* the states at or after AWAITING_SATISFACTION
AfterPredictedDomain ==
    {"AWAITING_SATISFACTION", "AWAITING_INTERESTED_DOMAIN", "GENERATING_QUIZ", "IN_QUIZ",
     "ANALYZING_QUIZ", "AWAITING_ADJACENT_CHOICE", "AWAITING_FINAL_FEEDBACK",
     "POST_GUIDANCE_CHAT"}

\* C32: quizSession is absent until a predicted domain is accepted in
\* AWAITING_PREDICTED_DOMAIN, where it starts with that predictedDomain and no
\* answers; from AWAITING_SATISFACTION on it is present and its predictedDomain
\* stays the value accepted then.
C32_SessionKeepsPredictedDomain ==
    [][/\ quizSession'.present <=> chatState' \in AfterPredictedDomain
       /\ quizSession.present =>
             /\ quizSession'.predictedDomain = quizSession.predictedDomain
             /\ quizSession.predictedDomain # ""
       /\ (~quizSession.present /\ quizSession'.present) =>
             /\ chatState = "AWAITING_PREDICTED_DOMAIN"
             /\ chatState' = "AWAITING_SATISFACTION"
             /\ ev'.type = "validatePredictedDomain"
             /\ quizSession' = [NoQuizSession EXCEPT !.present = TRUE,
                                                     !.predictedDomain = ev'.arg.name]]_vars

C32_Witness ==
    /\ chatState = "POST_GUIDANCE_CHAT"
    /\ quizSession.present
    /\ quizSession.predictedDomain = "Design"
    /\ quizSession.interestedDomain = "Data Science"
    /\ Len(quizSession.userAnswers) = QuizLength

\* the message that opens a run of generateAndDisplayDomainGuide
IsGuideAnnouncement(m) ==
    /\ m.sender = BOT
    /\ Len(m.text) = 2
    /\ m.text[1] = "Awesome! I'm putting together a detailed guide ... for"

\* index of the announcement of the report run in progress (0 if there is none)
CurrentGuideStart ==
    LET starts == {m \in 1..Len(messages) : IsGuideAnnouncement(messages[m])}
    IN IF starts = {} THEN 0 ELSE CHOOSE m \in starts : \A k \in starts : k <= m

\* a reply on which getDomainDetails / getDomainRoadmap throws
ReportCallFails(call, reply) ==
    IF call = "getDomainDetails" THEN ~reply.ok
    ELSE ~reply.ok \/ ~reply.parses \/ reply.items = <<>>

\* C33: when guide or roadmap generation fails on the report path (entered from
\* AWAITING_SATISFACTION, from AWAITING_ADJACENT_CHOICE or from a good-fit
\* quiz), exactly the guide error message is appended, the state becomes
\* AWAITING_INTERESTED_DOMAIN, the busy flag is released, the attempt has added
\* no roadmap message and AWAITING_FINAL_FEEDBACK is not entered.
C33_ReportFailureFallsBack ==
    [][(/\ ev'.type \in {"getDomainDetails", "getDomainRoadmap"}
        /\ ev' # ev
        /\ ReportCallFails(ev'.type, ev'.arg)) =>
          /\ chatState \in {"AWAITING_SATISFACTION", "AWAITING_ADJACENT_CHOICE", "ANALYZING_QUIZ"}
          /\ messages' = Append(messages, BotText(GuideError))
          /\ chatState' = "AWAITING_INTERESTED_DOMAIN"
          /\ ~isLoading'
          /\ inflight' = <<>>
          /\ CurrentGuideStart > 0
          /\ \A m \in CurrentGuideStart..Len(messages') : messages'[m].roadmap = <<>>
          /\ UNCHANGED context]_vars

C33_Witness ==
    /\ ev.type = "getDomainRoadmap"
    /\ ev.arg.ok
    /\ ev.arg.parses
    /\ ev.arg.items = <<>>
    /\ chatState = "AWAITING_INTERESTED_DOMAIN"
    /\ ~isLoading
    /\ Last(messages).text = GuideError
    /\ messages[Len(messages) - 1].text = <<"guide">>
    /\ \E m \in 1..Len(messages) : messages[m].analysis # <<>>

\* a reply on which getQuizAnalysis throws
AnalysisCallFails(reply) == ~reply.ok \/ ~reply.parses

\* C34: when the analysis fails after the answer that completes a quiz, the
\* generic apology is not said: exactly the retry prompt asking for a domain is
\* appended, the state becomes AWAITING_INTERESTED_DOMAIN, the busy flag is
\* released and the quiz has no analysis message in the transcript.
C34_AnalysisFailureAsksForDomain ==
    [][(ev'.type = "getQuizAnalysis" /\ ev' # ev /\ AnalysisCallFails(ev'.arg)) =>
          /\ chatState = "ANALYZING_QUIZ"
          /\ Last(messages).text = Thanks
          /\ messages' = Append(messages, BotText(AnalysisError))
          /\ AnalysisError # Apology
          /\ chatState' = "AWAITING_INTERESTED_DOMAIN"
          /\ ~isLoading'
          /\ inflight' = <<>>
          /\ CurrentQuizStart(messages') > 0
          /\ \A m \in CurrentQuizStart(messages')..Len(messages') : messages'[m].analysis = <<>>
          /\ UNCHANGED context]_vars

C34_Witness ==
    /\ ev.type = "getQuizAnalysis"
    /\ ev.arg.ok
    /\ ~ev.arg.parses
    /\ chatState = "AWAITING_INTERESTED_DOMAIN"
    /\ ~isLoading
    /\ Last(messages).text = AnalysisError
    /\ Len(quizSession.userAnswers) = QuizLength
    /\ \A m \in 1..Len(messages) : messages[m].analysis = <<>>

\* the states whose handler waits for the next user input
InputStates ==
    {"AWAITING_NAME", "AWAITING_CLASS_LEVEL", "AWAITING_STREAM", "AWAITING_PREDICTED_DOMAIN",
     "AWAITING_SATISFACTION", "AWAITING_INTERESTED_DOMAIN", "IN_QUIZ",
     "AWAITING_ADJACENT_CHOICE", "AWAITING_FINAL_FEEDBACK", "POST_GUIDANCE_CHAT"}

\* C35: whenever the started session is not busy, the dialogue state is one
\* that waits for user input; GENERATING_QUIZ and ANALYZING_QUIZ are occupied
\* only while a turn is in progress.
C35_IdleStateAwaitsInput ==
    (Started /\ ~isLoading) => chatState \in InputStates

\* the messages with options that are not answered yet
OpenQuestions ==
    {m \in 1..Len(messages) : messages[m].options # <<>> /\ ~messages[m].quizAnswered}

\* the answers given to the current quiz: its question messages already answered
CurrentQuizAnswered ==
    {m \in (CurrentQuizStart(messages) + 1)..Len(messages) :
        messages[m].options # <<>> /\ messages[m].quizAnswered}

\* C36: the transcript holds at most one unanswered message with options; if
\* there is one, the state is IN_QUIZ and it is the last message; and whenever
\* the state is IN_QUIZ and the session is not busy there is exactly one, whose
\* question number is the number of answers given to the current quiz plus 1.
C36_OneOpenQuestion ==
    /\ Cardinality(OpenQuestions) <= 1
    /\ OpenQuestions # {} =>
          /\ chatState = "IN_QUIZ"
          /\ OpenQuestions = {Len(messages)}
    /\ (chatState = "IN_QUIZ" /\ ~isLoading) =>
          /\ Cardinality(OpenQuestions) = 1
          /\ Last(messages).text[1] = "Question"
          /\ Last(messages).text[2] = Cardinality(CurrentQuizAnswered) + 1

C36_Witness ==
    /\ chatState = "IN_QUIZ"
    /\ ~isLoading
    /\ OpenQuestions = {Len(messages)}
    /\ Last(messages).text[2] = 3
    /\ Cardinality(CurrentQuizAnswered) = 2
    /\ ev.type = "delay"

\* the calls the frames of a list of suspended handlers await
Awaited(frames) == {frames[i].pc : i \in 1..Len(frames)}

\* C37: a run of the report path appends, in this order, the announcement, the
\* guide text, the roadmap and the final-feedback prompt; the roadmap call
\* starts only when the guide call has returned and its text is appended; and
\* the state becomes AWAITING_FINAL_FEEDBACK only on the roadmap's return, with
\* guide and roadmap both in the transcript.
C37_ReportPathOrder ==
    [][/\ ("getDomainDetails" \in Awaited(inflight') /\ "getDomainDetails" \notin Awaited(inflight)) =>
             /\ IsGuideAnnouncement(Last(messages'))
             /\ Last(messages').text[2] = inflight'[1].domain
       /\ ("getDomainRoadmap" \in Awaited(inflight') /\ "getDomainRoadmap" \notin Awaited(inflight)) =>
             /\ ev'.type = "getDomainDetails"
             /\ ev'.arg.ok
             /\ "getDomainDetails" \in Awaited(inflight)
             /\ "getDomainDetails" \notin Awaited(inflight')
             /\ IsGuideAnnouncement(Last(messages))
             /\ messages' = Append(messages, BotText(ev'.arg.text))
       /\ (chatState' = "AWAITING_FINAL_FEEDBACK" /\ chatState # "AWAITING_FINAL_FEEDBACK") =>
             /\ ev'.type = "getDomainRoadmap"
             /\ ev'.arg.items # <<>>
             /\ Len(messages) >= 2
             /\ IsGuideAnnouncement(messages[Len(messages) - 1])
             /\ Last(messages).roadmap = <<>>
             /\ Last(messages).sender = BOT
             /\ messages' = Append(Append(messages,
                                Message(BOT, <<>>, <<>>, <<>>, ev'.arg.items)),
                                BotText(FeedbackPrompt))]_vars

C37_Witness ==
    /\ ev.type = "getDomainRoadmap"
    /\ chatState = "AWAITING_FINAL_FEEDBACK"
    /\ Len(messages) >= 4
    /\ IsGuideAnnouncement(messages[Len(messages) - 3])
    /\ messages[Len(messages) - 2].text = <<"guide">>
    /\ messages[Len(messages) - 1].roadmap = <<"stage1", "stage2", "stage3">>
    /\ Last(messages).text = FeedbackPrompt
    /\ inflight = <<>>

\* the intake states, in the order the dialogue goes through them
IntakeOrder ==
    <<"INITIAL", "AWAITING_NAME", "AWAITING_CLASS_LEVEL", "AWAITING_STREAM",
      "AWAITING_PREDICTED_DOMAIN", "AWAITING_SATISFACTION">>

\* position of a state in the dialogue: the intake order, then the exploration states
Position(state) ==
    IF \E k \in 1..Len(IntakeOrder) : IntakeOrder[k] = state
    THEN CHOOSE k \in 1..Len(IntakeOrder) : IntakeOrder[k] = state
    ELSE CASE state = "AWAITING_INTERESTED_DOMAIN" -> 7
           [] state = "GENERATING_QUIZ" -> 8
           [] state = "IN_QUIZ" -> 9
           [] state = "ANALYZING_QUIZ" -> 10
           [] state = "AWAITING_ADJACENT_CHOICE" -> 11
           [] state = "AWAITING_FINAL_FEEDBACK" -> 12
           [] state = "POST_GUIDANCE_CHAT" -> 13

\* C38: an intake state (INITIAL .. AWAITING_SATISFACTION) is never entered
\* again once left; every step that goes back in the dialogue goes to
\* AWAITING_INTERESTED_DOMAIN; and AWAITING_STREAM is entered only with
\* classLevel "Class 12".
C38_IntakeNeverReentered ==
    [][/\ (chatState' # chatState /\ Position(chatState') <= Len(IntakeOrder)) =>
             Position(chatState) < Position(chatState')
       /\ Position(chatState') < Position(chatState) =>
             chatState' = "AWAITING_INTERESTED_DOMAIN"
       /\ chatState' = "AWAITING_STREAM" => classLevel' = "Class 12"]_vars

C38_Witness ==
    /\ ev.type = "isPositiveFeedback"
    /\ ev.arg.ok
    /\ chatState = "AWAITING_INTERESTED_DOMAIN"
    /\ classLevel = "Class 12"
    /\ stream = "Science"
    /\ quizSession.predictedDomain = "Design"
    /\ \E m \in 1..Len(messages) : messages[m].text = FeedbackPrompt

====
